---- MODULE Spec2Model ----
(***************************************************************************)
(* Model of the PoliceChief simulation core: the PlayerProfile resource    *)
(* availability model (models/profile.py), the GameEngine economics,       *)
(* dispatch and resolution (services/game_engine.py) and the TickEngine    *)
(* catch-up scheduler (services/tick_engine.py).                           *)
(*                                                                         *)
(* Time is counted in whole minutes.  Fractions that the code keeps as     *)
(* floats (upgrade effect values, staff success bonuses, district reward   *)
(* multipliers) are kept in hundredths and evaluated exactly; int(x) is    *)
(* truncation toward zero.  A dict key that is absent and a key bound to   *)
(* an empty list / zero count are the same value in the model.             *)
(***************************************************************************)
EXTENDS Integers, Sequences, FiniteSets, TLC

VARIABLES
    profile,    \* the in-memory PlayerProfile
    stored,     \* the copy last written by repository.save_profile
    balance,    \* the player's ledger (bank) balance
    now,        \* wall clock, minutes
    arg,        \* inputs of the last economics evaluation
    ret,        \* observation of the last operation: its inputs and results
    requests,   \* SpecRequests: the requests in flight, each with its position
                \* and the PlayerProfile object it holds
    locks,      \* SpecRequests: Repository._locks, user id -> holder
    views       \* SpecPlay: the mission whose Dispatch button is on screen
                \* and the button presses received and not yet handled

vars == <<profile, stored, balance, now, arg, ret, requests, locks, views>>

----------------------------------------------------------------------------
(* Bounds of the exploration *)

MaxUnits == 3          \* Spec: vehicles and staff of a station together at most
MaxTime == 2           \* Spec, SpecDispatch: last instant of the clock
MaxPending == 2        \* SpecDispatch: dispatches stop at this many active missions
MaxActive == 2         \* SpecResolution: dispatches stop at this many active missions
MaxResolveTime == 2    \* SpecResolution: last instant of the clock
MaxLevel == 2          \* SpecEconomics: highest station level drawn
MaxBalance == 5000     \* ledger ceiling (the bank refuses deposits above it)
MaxCatchupTime == 2900 \* SpecCatchup: last instant of the clock
MaxEquipment == 3      \* SpecEquipment: pieces of equipment in the inventory at most
MaxAssign == 2         \* SpecEquipment: largest quantity of one assignment
MaxHeld == 1           \* SpecFrozen: missions dispatched over a run at most
MaxFrozenTime == 2     \* SpecFrozen: last instant of the clock
MaxTables == 2         \* SpecSlots: dispatchers on the roster at most
MaxBusy == 2           \* SpecSlots: missions already active when the run starts at most
MaxPresses == 2        \* SpecPlay: presses of a Dispatch button over a run at most
MaxPurchases == 1      \* SpecPlay: pieces of equipment bought over a run at most

----------------------------------------------------------------------------
(* Program constants *)

DISPATCH_BASE_TABLES == 1
DISPATCHER_STAFF_ID == "dispatcher"
MINIMUM_BALANCE == 100
PROFIT_MARGIN_PCT == 10          \* PROFIT_MARGIN = 0.1
PROFIT_PER_LEVEL_MILLI == 15     \* PROFIT_PER_LEVEL = 0.015
FAILURE_CHANCE_PENALTY == 3
TICK_INTERVAL_MINUTES == 5
MAX_CATCHUP_HOURS == 24

NoneTs == -1    \* last_tick_ts = None

----------------------------------------------------------------------------
(* Arithmetic helpers *)

Min(a, b) == IF a <= b THEN a ELSE b
Max(a, b) == IF a >= b THEN a ELSE b
Abs(a) == IF a >= 0 THEN a ELSE -a

\* int(n / d) for d > 0: truncation toward zero
Trunc(n, d) == IF n >= 0 THEN n \div d ELSE -((-n) \div d)

RECURSIVE SumSeq(_)
SumSeq(s) == IF s = <<>> THEN 0 ELSE Head(s) + SumSeq(Tail(s))

Range(s) == {s[i] : i \in DOMAIN s}

Repeat(x, n) == [i \in 1..n |-> x]

\* Counter(seq).items(): the distinct elements in first-occurrence order,
\* each with its multiplicity
Count(seq, x) == Cardinality({i \in DOMAIN seq : seq[i] = x})
FirstAt(seq) == {i \in DOMAIN seq : \A j \in 1..(i - 1) : seq[j] # seq[i]}
RECURSIVE CounterFrom(_, _)
CounterFrom(seq, i) ==
    IF i > Len(seq) THEN <<>>
    ELSE IF i \in FirstAt(seq)
         THEN <<[key |-> seq[i], n |-> Count(seq, seq[i])]>> \o CounterFrom(seq, i + 1)
         ELSE CounterFrom(seq, i + 1)
Counter(seq) == CounterFrom(seq, 1)

----------------------------------------------------------------------------
(* Catalog: the content the engine reads, in catalog iteration order *)

VehicleCatalog ==
    << [id |-> "cruiser", vehicle_type |-> "patrol", maintenance_cost |-> 5,
        cooldown_minutes |-> 2],
       [id |-> "suv", vehicle_type |-> "patrol", maintenance_cost |-> 10,
        cooldown_minutes |-> 1] >>

StaffCatalog ==
    << [id |-> "dispatcher", staff_type |-> "dispatcher", salary_per_tick |-> 5,
        success_bonus |-> 100, cooldown_minutes |-> 1, equipment_slots |-> 0],
       [id |-> "officer", staff_type |-> "officer", salary_per_tick |-> 5,
        success_bonus |-> 110, cooldown_minutes |-> 2, equipment_slots |-> 2] >>

VehicleIds == {VehicleCatalog[i].id : i \in DOMAIN VehicleCatalog}
StaffIds == {StaffCatalog[i].id : i \in DOMAIN StaffCatalog}

\* the equipment slot count of a vehicle (the Vehicle field equipment_slots
\* that get_vehicle_slot_usage reads)
VehicleEquipmentSlots == [cruiser |-> 2, suv |-> 1]

StaffEquipmentSlots ==
    [id \in StaffIds |->
        LET i == CHOOSE j \in DOMAIN StaffCatalog : StaffCatalog[j].id = id
        IN StaffCatalog[i].equipment_slots]

EquipmentCatalog ==
    [radio |-> [slot_size |-> 1, purchase_cost |-> 30],
     ram   |-> [slot_size |-> 3, purchase_cost |-> 110]]
EquipmentIds == DOMAIN EquipmentCatalog
NoEquipment == [e \in EquipmentIds |-> 0]

\* districts: reward multiplier in hundredths, difficulty modifier added to
\* the base difficulty (negative = easier)
DistrictCatalog ==
    [downtown |-> [mission_reward_multiplier |-> 100, mission_difficulty_modifier |-> 0],
     harbor   |-> [mission_reward_multiplier |-> 120, mission_difficulty_modifier |-> 10],
     suburbs  |-> [mission_reward_multiplier |-> 80, mission_difficulty_modifier |-> -10]]
DistrictIds == DOMAIN DistrictCatalog

\* upgrades: effect_value in hundredths (dispatch_capacity: whole tables)
UpgradeCatalog ==
    [dispatch_center |-> [effect_type |-> "automation", effect_value |-> 100],
     fuel_cards      |-> [effect_type |-> "cost_reduction", effect_value |-> 10],
     sponsorship     |-> [effect_type |-> "income_boost", effect_value |-> 20],
     training        |-> [effect_type |-> "success_boost", effect_value |-> 15],
     extra_table     |-> [effect_type |-> "dispatch_capacity", effect_value |-> 1]]
UpgradeIds == DOMAIN UpgradeCatalog

----------------------------------------------------------------------------
(* PlayerProfile *)

NoCooldowns(ids) == [id \in ids |-> <<>>]

\* PlayerProfile(user_id): the dataclass defaults
NewProfile ==
    [special_user |-> FALSE,
     station_level |-> 1,
     current_district |-> "downtown",
     owned_vehicles |-> [id \in VehicleIds |-> 0],
     staff_roster |-> [id \in StaffIds |-> 0],
     owned_upgrades |-> {},
     active_policies |-> <<>>,
     equipment_inventory |-> NoEquipment,
     equipment_assignments |-> [vehicles |-> [id \in VehicleIds |-> NoEquipment],
                                staff |-> [id \in StaffIds |-> NoEquipment]],
     active_missions |-> <<>>,
     heat_level |-> 0,
     reputation |-> 50,
     last_tick_ts |-> NoneTs,
     automation_enabled |-> FALSE,
     vehicle_cooldowns |-> NoCooldowns(VehicleIds),
     staff_cooldowns |-> NoCooldowns(StaffIds),
     total_missions_completed |-> 0,
     total_missions_failed |-> 0,
     total_income_earned |-> 0,
     total_expenses_paid |-> 0]

has_upgrade(p, upgrade_id) == upgrade_id \in p.owned_upgrades
has_automation_access(p) == has_upgrade(p, "dispatch_center") \/ p.special_user

get_vehicle_count(p, vehicle_id) == p.owned_vehicles[vehicle_id]
get_staff_count(p, staff_id) == p.staff_roster[staff_id]

total_vehicle_count(p) == SumSeq([i \in DOMAIN VehicleCatalog |-> p.owned_vehicles[VehicleCatalog[i].id]])
total_staff_count(p) == SumSeq([i \in DOMAIN StaffCatalog |-> p.staff_roster[StaffCatalog[i].id]])

add_vehicle(p, vehicle_id, quantity) ==
    [p EXCEPT !.owned_vehicles[vehicle_id] = @ + quantity]

add_staff(p, staff_id, quantity) ==
    [p EXCEPT !.staff_roster[staff_id] = @ + quantity]

remove_vehicle(p, vehicle_id, quantity) ==
    LET current == p.owned_vehicles[vehicle_id] IN
    IF quantity >= current
    THEN [p EXCEPT !.owned_vehicles[vehicle_id] = 0,
                   !.vehicle_cooldowns[vehicle_id] = <<>>,
                   !.equipment_assignments.vehicles[vehicle_id] = NoEquipment]
    ELSE IF current > 0
         THEN [p EXCEPT !.owned_vehicles[vehicle_id] = current - quantity]
         ELSE p

remove_staff(p, staff_id, quantity) ==
    LET current == p.staff_roster[staff_id] IN
    IF quantity >= current
    THEN [p EXCEPT !.staff_roster[staff_id] = 0,
                   !.staff_cooldowns[staff_id] = <<>>,
                   !.equipment_assignments.staff[staff_id] = NoEquipment]
    ELSE IF current > 0
         THEN [p EXCEPT !.staff_roster[staff_id] = current - quantity]
         ELSE p

add_equipment(p, equipment_id, quantity) ==
    [p EXCEPT !.equipment_inventory[equipment_id] = @ + quantity]

remove_equipment(p, equipment_id, quantity) ==
    LET current == p.equipment_inventory[equipment_id] IN
    IF quantity >= current
    THEN [p EXCEPT !.equipment_inventory[equipment_id] = 0]
    ELSE IF current > 0
         THEN [p EXCEPT !.equipment_inventory[equipment_id] = current - quantity]
         ELSE p

\* _prune_cooldowns: keep the entries with timestamp > now, for every key
prune_cooldowns(cooldowns, t) ==
    [id \in DOMAIN cooldowns |-> SelectSeq(cooldowns[id], LAMBDA ts : ts > t)]

\* get_available_vehicle_count has a result and a side effect (the pruning,
\* skipped when nothing of that id is owned)
pruned_by_vehicle_query(p, vehicle_id, t) ==
    IF get_vehicle_count(p, vehicle_id) = 0 THEN p
    ELSE [p EXCEPT !.vehicle_cooldowns = prune_cooldowns(@, t)]

\* get_available_vehicle_count counting every owned unit as ready
get_available_vehicle_count_ignoring_busy(p, vehicle_id, t) ==
    get_vehicle_count(p, vehicle_id)

get_available_vehicle_count(p, vehicle_id, t) ==
    LET owned == get_vehicle_count(p, vehicle_id) IN
    IF owned = 0 THEN 0
    ELSE Max(0, owned - Len(prune_cooldowns(p.vehicle_cooldowns, t)[vehicle_id]))

pruned_by_staff_query(p, staff_id, t) ==
    IF get_staff_count(p, staff_id) = 0 THEN p
    ELSE [p EXCEPT !.staff_cooldowns = prune_cooldowns(@, t)]

\* get_available_staff_count without the max(0, ...) around owned - busy
get_available_staff_count_unclamped(p, staff_id, t) ==
    LET owned == get_staff_count(p, staff_id) IN
    IF owned = 0 THEN 0
    ELSE owned - Len(prune_cooldowns(p.staff_cooldowns, t)[staff_id])

get_available_staff_count(p, staff_id, t) ==
    LET owned == get_staff_count(p, staff_id) IN
    IF owned = 0 THEN 0
    ELSE Max(0, owned - Len(prune_cooldowns(p.staff_cooldowns, t)[staff_id]))

is_staff_available(p, staff_id, t) == get_available_staff_count(p, staff_id, t) > 0

\* allocate_vehicles(Counter({vehicle_id: quantity}), cooldown_end)
allocate_vehicles(p, vehicle_id, quantity, cooldown_end, t) ==
    IF quantity <= 0 THEN p
    ELSE LET ready_slots == get_available_vehicle_count(p, vehicle_id, t)
             q == IF quantity > ready_slots THEN ready_slots ELSE quantity
             p1 == pruned_by_vehicle_query(p, vehicle_id, t)
         IN [p1 EXCEPT !.vehicle_cooldowns[vehicle_id] = @ \o Repeat(cooldown_end, q)]

allocate_staff(p, staff_id, quantity, cooldown_end, t) ==
    IF quantity <= 0 THEN p
    ELSE LET ready_slots == get_available_staff_count(p, staff_id, t)
             q == IF quantity > ready_slots THEN ready_slots ELSE quantity
             p1 == pruned_by_staff_query(p, staff_id, t)
         IN [p1 EXCEPT !.staff_cooldowns[staff_id] = @ \o Repeat(cooldown_end, q)]

----------------------------------------------------------------------------
(* PlayerProfile: equipment slots and assignment.  An equipment id with no
   entry in a bucket counts 0, as in the code's .get(equipment_id, 0) *)

SumOfCounts(S, f) ==
    LET RECURSIVE Go(_)
        Go(T) == IF T = {} THEN 0
                 ELSE LET x == CHOOSE y \in T : TRUE IN f[x] + Go(T \ {x})
    IN Go(S)

get_total_assigned_equipment(p, equipment_id) ==
    SumOfCounts(VehicleIds, [id \in VehicleIds |->
                               p.equipment_assignments.vehicles[id][equipment_id]])
    + SumOfCounts(StaffIds, [id \in StaffIds |->
                               p.equipment_assignments.staff[id][equipment_id]])

get_unassigned_equipment(p, equipment_id) ==
    Max(0, p.equipment_inventory[equipment_id]
           - get_total_assigned_equipment(p, equipment_id))

get_equipment_for_vehicle(p, vehicle_id) == p.equipment_assignments.vehicles[vehicle_id]
get_equipment_for_staff(p, staff_id) == p.equipment_assignments.staff[staff_id]

get_used_slots(assignments) ==
    SumOfCounts(EquipmentIds, [e \in EquipmentIds |->
                                 EquipmentCatalog[e].slot_size * assignments[e]])

get_vehicle_slot_usage(p, vehicle_id) ==
    [used |-> get_used_slots(get_equipment_for_vehicle(p, vehicle_id)),
     total |-> VehicleEquipmentSlots[vehicle_id] * get_vehicle_count(p, vehicle_id)]

get_staff_slot_usage(p, staff_id) ==
    [used |-> get_used_slots(get_equipment_for_staff(p, staff_id)),
     total |-> StaffEquipmentSlots[staff_id] * get_staff_count(p, staff_id)]

assign_equipment_to_vehicle_any_size(p, vehicle_id, equipment_id, quantity) ==
    IF vehicle_id \notin VehicleIds \/ equipment_id \notin EquipmentIds
    THEN [ok |-> FALSE, p |-> p]
    ELSE IF get_unassigned_equipment(p, equipment_id) < quantity
    THEN [ok |-> FALSE, p |-> p]
    ELSE [ok |-> TRUE,
          p |-> [p EXCEPT !.equipment_assignments.vehicles[vehicle_id][equipment_id] =
                              @ + quantity]]

\* (returned bool, profile afterwards)
assign_equipment_to_vehicle(p, vehicle_id, equipment_id, quantity) ==
    IF vehicle_id \notin VehicleIds \/ equipment_id \notin EquipmentIds
    THEN [ok |-> FALSE, p |-> p]
    ELSE LET usage == get_vehicle_slot_usage(p, vehicle_id)
             available_slots == Max(0, usage.total - usage.used)
             needed_slots == EquipmentCatalog[equipment_id].slot_size * quantity
         IN IF needed_slots > available_slots
            THEN [ok |-> FALSE, p |-> p]
            ELSE IF get_unassigned_equipment(p, equipment_id) < quantity
            THEN [ok |-> FALSE, p |-> p]
            ELSE [ok |-> TRUE,
                  p |-> [p EXCEPT !.equipment_assignments.vehicles[vehicle_id][equipment_id] =
                                      @ + quantity]]

assign_equipment_to_staff(p, staff_id, equipment_id, quantity) ==
    IF staff_id \notin StaffIds \/ equipment_id \notin EquipmentIds
    THEN [ok |-> FALSE, p |-> p]
    ELSE LET usage == get_staff_slot_usage(p, staff_id)
             available_slots == Max(0, usage.total - usage.used)
             needed_slots == EquipmentCatalog[equipment_id].slot_size * quantity
         IN IF needed_slots > available_slots
            THEN [ok |-> FALSE, p |-> p]
            ELSE IF get_unassigned_equipment(p, equipment_id) < quantity
            THEN [ok |-> FALSE, p |-> p]
            ELSE [ok |-> TRUE,
                  p |-> [p EXCEPT !.equipment_assignments.staff[staff_id][equipment_id] =
                                      @ + quantity]]

\* target is "vehicles" or "staff"
unassign_equipment(p, target, target_id, equipment_id, quantity) ==
    IF target \notin DOMAIN p.equipment_assignments THEN [ok |-> FALSE, p |-> p]
    ELSE IF target_id \notin DOMAIN p.equipment_assignments[target]
            \/ equipment_id \notin EquipmentIds
    THEN [ok |-> FALSE, p |-> p]
    ELSE LET current == p.equipment_assignments[target][target_id][equipment_id] IN
         IF current <= 0 THEN [ok |-> FALSE, p |-> p]
         ELSE [ok |-> TRUE,
               p |-> [p EXCEPT !.equipment_assignments[target][target_id][equipment_id] =
                                   IF quantity >= current THEN 0 ELSE current - quantity]]

add_active_mission(p, am) == [p EXCEPT !.active_missions = Append(@, am)]

\* prune_expired_missions: keep the missions that end after the reference time
prune_expired_missions(p, reference_time) ==
    [p EXCEPT !.active_missions = SelectSeq(@, LAMBDA am : am.ends_at > reference_time)]

----------------------------------------------------------------------------
(* GameEngine: economics *)

UpgradesOfType(p, effect_type) ==
    {u \in p.owned_upgrades \cap UpgradeIds : UpgradeCatalog[u].effect_type = effect_type}

RECURSIVE ProductOver(_, _)
\* product of f[u] over the set S
ProductOver(S, f) ==
    IF S = {} THEN 1
    ELSE LET u == CHOOSE x \in S : TRUE IN f[u] * ProductOver(S \ {u}, f)

RECURSIVE SumOver(_, _)
SumOver(S, f) ==
    IF S = {} THEN 0
    ELSE LET u == CHOOSE x \in S : TRUE IN f[u] + SumOver(S \ {u}, f)

RECURSIVE Pow(_, _)
Pow(b, n) == IF n = 0 THEN 1 ELSE b * Pow(b, n - 1)

\* the inner loop of the maintenance walk, from catalog position i on:
\* min(needed, owned) units of each matching id, until the need is covered
RECURSIVE MaintenanceWalk(_, _, _, _, _)
MaintenanceWalk(p, mission, vehicle_type, quantity_needed, i) ==
    IF i > Len(VehicleCatalog) THEN 0
    ELSE LET vehicle == VehicleCatalog[i]
             owned == get_vehicle_count(p, vehicle.id)
             used == Min(quantity_needed, owned)
         IN IF vehicle.vehicle_type # vehicle_type \/ owned <= 0
            THEN MaintenanceWalk(p, mission, vehicle_type, quantity_needed, i + 1)
            ELSE Trunc(vehicle.maintenance_cost * mission.base_duration * used,
                       TICK_INTERVAL_MINUTES)
                 + (IF quantity_needed - used <= 0 THEN 0
                    ELSE MaintenanceWalk(p, mission, vehicle_type,
                                         quantity_needed - used, i + 1))

RECURSIVE SalaryWalk(_, _, _, _, _)
SalaryWalk(p, mission, staff_type, quantity_needed, i) ==
    IF i > Len(StaffCatalog) THEN 0
    ELSE LET staff == StaffCatalog[i]
             owned == get_staff_count(p, staff.id)
             used == Min(quantity_needed, owned)
         IN IF staff.staff_type # staff_type \/ owned <= 0
            THEN SalaryWalk(p, mission, staff_type, quantity_needed, i + 1)
            ELSE Trunc(staff.salary_per_tick * mission.base_duration * used,
                       TICK_INTERVAL_MINUTES)
                 + (IF quantity_needed - used <= 0 THEN 0
                    ELSE SalaryWalk(p, mission, staff_type, quantity_needed - used, i + 1))

calculate_mission_operating_costs(p, mission) ==
    LET reductions == UpgradesOfType(p, "cost_reduction")
        \* cost_multiplier = prod (1.0 - effect_value), in hundredths^k
        num == ProductOver(reductions, [u \in reductions |-> 100 - UpgradeCatalog[u].effect_value])
        den == Pow(100, Cardinality(reductions))
        fuel == Max(1, Trunc(mission.fuel_cost * num, den))
        vreq == Counter(mission.required_vehicle_types)
        sreq == Counter(mission.required_staff_types)
        maintenance == SumSeq([k \in DOMAIN vreq |->
                          MaintenanceWalk(p, mission, vreq[k].key, vreq[k].n, 1)])
        salaries == SumSeq([k \in DOMAIN sreq |->
                          SalaryWalk(p, mission, sreq[k].key, sreq[k].n, 1)])
    IN [fuel |-> fuel, maintenance |-> maintenance, salaries |-> salaries,
        total |-> Max(1, fuel + maintenance + salaries)]

calculate_dispatch_cost(p, mission) == calculate_mission_operating_costs(p, mission).total

\* the bonus of the first available staff entry of the type, from position i on
RECURSIVE FirstStaffBonus(_, _, _, _)
FirstStaffBonus(p, staff_type, t, i) ==
    IF i > Len(StaffCatalog) THEN 0
    ELSE IF StaffCatalog[i].staff_type = staff_type
            /\ is_staff_available(p, StaffCatalog[i].id, t)
         THEN StaffCatalog[i].success_bonus - 100
         ELSE FirstStaffBonus(p, staff_type, t, i + 1)

\* final_chance before int() and the clamp, in hundredths
success_chance_hundredths(p, mission, t) ==
    LET base_chance == IF p.current_district \in DistrictIds
                       THEN mission.base_success_chance
                            - DistrictCatalog[p.current_district].mission_difficulty_modifier
                       ELSE mission.base_success_chance
        staff_bonus == SumSeq([k \in DOMAIN mission.required_staff_types |->
                          FirstStaffBonus(p, mission.required_staff_types[k], t, 1)])
        boosts == UpgradesOfType(p, "success_boost")
        upgrade_bonus == SumOver(boosts, [u \in boosts |-> UpgradeCatalog[u].effect_value])
    IN base_chance * (100 + staff_bonus + upgrade_bonus)
       + 10 * (p.reputation - 50)
       - 100 * FAILURE_CHANCE_PENALTY

calculate_success_chance_unclamped(p, mission, t) ==
    Trunc(success_chance_hundredths(p, mission, t), 100)

calculate_success_chance(p, mission, t) ==
    Max(5, Min(95, Trunc(success_chance_hundredths(p, mission, t), 100)))

\* the side effect of calculate_success_chance: is_staff_available prunes
\* staff_cooldowns as soon as one queried staff id is owned
pruned_by_success_chance(p, mission, t) ==
    IF \E i \in DOMAIN StaffCatalog :
          /\ StaffCatalog[i].staff_type \in Range(mission.required_staff_types)
          /\ get_staff_count(p, StaffCatalog[i].id) > 0
    THEN [p EXCEPT !.staff_cooldowns = prune_cooldowns(@, t)]
    ELSE p

calculate_mission_reward(p, mission) ==
    LET r1 == Trunc(mission.base_reward
                    * (1000 + Max(0, p.station_level - 1) * PROFIT_PER_LEVEL_MILLI), 1000)
        r2 == IF p.current_district \in DistrictIds
              THEN Trunc(r1 * DistrictCatalog[p.current_district].mission_reward_multiplier, 100)
              ELSE r1
        boosts == UpgradesOfType(p, "income_boost")
        num == ProductOver(boosts, [u \in boosts |-> 100 + UpgradeCatalog[u].effect_value])
        den == Pow(100, Cardinality(boosts))
        r3 == Trunc(r2 * num, den)
        dispatch_cost == calculate_dispatch_cost(p, mission)
        minimum_profitable_reward == Trunc(dispatch_cost * (100 + PROFIT_MARGIN_PCT), 100)
    IN Max(1, Max(r3, minimum_profitable_reward))

----------------------------------------------------------------------------
(* GameEngine: dispatch *)

\* the inner loop of the vehicle allocation walk for one required type
RECURSIVE VehicleAllocWalk(_, _, _, _, _)
VehicleAllocWalk(p, vehicle_type, needed, t, i) ==
    IF i > Len(VehicleCatalog) THEN p
    ELSE LET vehicle == VehicleCatalog[i] IN
         IF vehicle.vehicle_type # vehicle_type
         THEN VehicleAllocWalk(p, vehicle_type, needed, t, i + 1)
         ELSE IF needed <= 0 THEN p
         ELSE LET available == get_available_vehicle_count(p, vehicle.id, t)
                  p1 == pruned_by_vehicle_query(p, vehicle.id, t)
                  assign == Min(needed, available)
              IN IF available <= 0
                 THEN VehicleAllocWalk(p1, vehicle_type, needed, t, i + 1)
                 ELSE VehicleAllocWalk(
                          allocate_vehicles(p1, vehicle.id, assign,
                                            t + vehicle.cooldown_minutes, t),
                          vehicle_type, needed - assign, t, i + 1)

RECURSIVE StaffAllocWalk(_, _, _, _, _)
StaffAllocWalk(p, staff_type, needed, t, i) ==
    IF i > Len(StaffCatalog) THEN p
    ELSE LET staff == StaffCatalog[i] IN
         IF staff.staff_type # staff_type
         THEN StaffAllocWalk(p, staff_type, needed, t, i + 1)
         ELSE IF needed <= 0 THEN p
         ELSE LET available == get_available_staff_count(p, staff.id, t)
                  p1 == pruned_by_staff_query(p, staff.id, t)
                  assign == Min(needed, available)
              IN IF available <= 0
                 THEN StaffAllocWalk(p1, staff_type, needed, t, i + 1)
                 ELSE StaffAllocWalk(
                          allocate_staff(p1, staff.id, assign,
                                         t + staff.cooldown_minutes, t),
                          staff_type, needed - assign, t, i + 1)

\* the outer loops: one walk per entry of Counter(required types)
RECURSIVE AllocVehicleRequirements(_, _, _, _)
AllocVehicleRequirements(p, reqs, t, k) ==
    IF k > Len(reqs) THEN p
    ELSE AllocVehicleRequirements(
             VehicleAllocWalk(p, reqs[k].key, reqs[k].n, t, 1), reqs, t, k + 1)

RECURSIVE AllocStaffRequirements(_, _, _, _)
AllocStaffRequirements(p, reqs, t, k) ==
    IF k > Len(reqs) THEN p
    ELSE AllocStaffRequirements(
             StaffAllocWalk(p, reqs[k].key, reqs[k].n, t, 1), reqs, t, k + 1)

\* the ActiveMission that dispatch_mission builds
\* new_active_mission storing the mission's base chance
new_active_mission_base_chance(p, mission, t) ==
    [mission_id |-> mission.id,
     ends_at |-> t + mission.base_duration,
     dispatched_at |-> t,
     operating_cost |-> calculate_mission_operating_costs(p, mission).total,
     potential_reward |-> calculate_mission_reward(p, mission),
     success_chance |-> mission.base_success_chance,
     heat_change |-> mission.heat_change,
     reputation_success |-> mission.reputation_change_success,
     reputation_failure |-> mission.reputation_change_failure]

new_active_mission(p, mission, t) ==
    [mission_id |-> mission.id,
     ends_at |-> t + mission.base_duration,
     dispatched_at |-> t,
     operating_cost |-> calculate_mission_operating_costs(p, mission).total,
     potential_reward |-> calculate_mission_reward(p, mission),
     success_chance |-> calculate_success_chance(p, mission, t),
     heat_change |-> mission.heat_change,
     reputation_success |-> mission.reputation_change_success,
     reputation_failure |-> mission.reputation_change_failure]

\* dispatch_mission leaving total_expenses_paid alone
dispatch_mission_cost_unrecorded(p, mission, t) ==
    LET am == new_active_mission(p, mission, t)
        p1 == pruned_by_success_chance(p, mission, t)
        p2 == AllocVehicleRequirements(p1, Counter(mission.required_vehicle_types), t, 1)
        p3 == AllocStaffRequirements(p2, Counter(mission.required_staff_types), t, 1)
    IN add_active_mission(p3, am)

\* the profile after dispatch_mission
dispatch_mission(p, mission, t) ==
    LET am == new_active_mission(p, mission, t)
        p1 == pruned_by_success_chance(p, mission, t)
        p2 == AllocVehicleRequirements(p1, Counter(mission.required_vehicle_types), t, 1)
        p3 == AllocStaffRequirements(p2, Counter(mission.required_staff_types), t, 1)
        p4 == add_active_mission(p3, am)
    IN [p4 EXCEPT !.total_expenses_paid = @ + am.operating_cost]

----------------------------------------------------------------------------
(* GameEngine: resolution *)

\* settle_mission with the failure branch leaving the failed counter alone
settle_mission_uncounted_failure(p, ms, roll) ==
    IF roll <= ms.success_chance
    THEN [p EXCEPT !.total_missions_completed = @ + 1,
                   !.total_income_earned = @ + ms.potential_reward,
                   !.reputation = Min(100, @ + ms.reputation_success),
                   !.heat_level = Max(0, Min(100, @ + ms.heat_change))]
    ELSE [p EXCEPT !.reputation = Max(0, @ + ms.reputation_failure),
                   !.heat_level = Max(0, Min(100, @ + Abs(ms.heat_change)))]

\* settle_mission with the failure branch applying the signed heat_change
settle_mission_signed_failure_heat(p, ms, roll) ==
    IF roll <= ms.success_chance
    THEN [p EXCEPT !.total_missions_completed = @ + 1,
                   !.total_income_earned = @ + ms.potential_reward,
                   !.reputation = Min(100, @ + ms.reputation_success),
                   !.heat_level = Max(0, Min(100, @ + ms.heat_change))]
    ELSE [p EXCEPT !.total_missions_failed = @ + 1,
                   !.reputation = Max(0, @ + ms.reputation_failure),
                   !.heat_level = Max(0, Min(100, @ + ms.heat_change))]

\* one finished mission settled with the drawn roll
settle_mission(p, ms, roll) ==
    IF roll <= ms.success_chance
    THEN [p EXCEPT !.total_missions_completed = @ + 1,
                   !.total_income_earned = @ + ms.potential_reward,
                   !.reputation = Min(100, @ + ms.reputation_success),
                   !.heat_level = Max(0, Min(100, @ + ms.heat_change))]
    ELSE [p EXCEPT !.total_missions_failed = @ + 1,
                   !.reputation = Max(0, @ + ms.reputation_failure),
                   !.heat_level = Max(0, Min(100, @ + Abs(ms.heat_change)))]

\* the sweep over active_missions from position i on; acc carries the
\* profile, the still-running partition and the returned counts
RECURSIVE ResolveFrom(_, _, _, _, _)
ResolveFrom(acc, missions, rolls, t, i) ==
    IF i > Len(missions) THEN acc
    ELSE LET ms == missions[i] IN
         IF ms.ends_at > t
         THEN ResolveFrom([acc EXCEPT !.remaining = Append(@, ms)], missions, rolls, t, i + 1)
         ELSE LET success == rolls[i] <= ms.success_chance IN
              ResolveFrom(
                  [acc EXCEPT !.p = settle_mission(@, ms, rolls[i]),
                              !.income = @ + (IF success THEN ms.potential_reward ELSE 0),
                              !.completed = @ + (IF success THEN 1 ELSE 0),
                              !.failed = @ + (IF success THEN 0 ELSE 1)],
                  missions, rolls, t, i + 1)

\* rolls[i] is the random.randint(1, 100) drawn if mission i has finished
resolve_completed_missions(p, rolls, t) ==
    LET r == ResolveFrom([p |-> p, remaining |-> <<>>, income |-> 0, expenses |-> 0,
                          completed |-> 0, failed |-> 0],
                         p.active_missions, rolls, t, 1)
    IN [r EXCEPT !.p = [r.p EXCEPT !.active_missions = r.remaining]]

----------------------------------------------------------------------------
(* GameEngine: dispatch preconditions and dispatch capacity *)

get_available_dispatcher_count(p, t) == get_available_staff_count(p, DISPATCHER_STAFF_ID, t)
has_active_dispatcher(p, t) == get_available_dispatcher_count(p, t) > 0

get_dispatch_table_count(p, t) ==
    LET caps == UpgradesOfType(p, "dispatch_capacity")
        tables == Max(DISPATCH_BASE_TABLES, get_available_dispatcher_count(p, t))
                  + SumOver(caps, [u \in caps |-> UpgradeCatalog[u].effect_value])
    IN Max(1, tables)

\* get_available_dispatch_slots without the tables already occupied
get_available_dispatch_slots_all_tables(p, t) ==
    IF ~has_active_dispatcher(p, t) THEN 0
    ELSE get_dispatch_table_count(p, t)

get_available_dispatch_slots(p, t) ==
    IF ~has_active_dispatcher(p, t) THEN 0
    ELSE Max(0, get_dispatch_table_count(p, t) - Len(p.active_missions))

VehicleTypeAvailability(p, vehicle_type, t) ==
    SumSeq([i \in DOMAIN VehicleCatalog |->
              IF VehicleCatalog[i].vehicle_type = vehicle_type
              THEN get_available_vehicle_count(p, VehicleCatalog[i].id, t) ELSE 0])

StaffTypeAvailability(p, staff_type, t) ==
    SumSeq([i \in DOMAIN StaffCatalog |->
              IF StaffCatalog[i].staff_type = staff_type
              THEN get_available_staff_count(p, StaffCatalog[i].id, t) ELSE 0])

VehicleRequirementsMet(p, mission, t) ==
    LET reqs == Counter(mission.required_vehicle_types) IN
    \A k \in DOMAIN reqs : VehicleTypeAvailability(p, reqs[k].key, t) >= reqs[k].n

StaffRequirementsMet(p, mission, t) ==
    LET reqs == Counter(mission.required_staff_types) IN
    \A k \in DOMAIN reqs : StaffTypeAvailability(p, reqs[k].key, t) >= reqs[k].n

can_dispatch_mission_any_level(p, mission, t) ==
    /\ has_active_dispatcher(p, t)
    /\ VehicleRequirementsMet(p, mission, t)
    /\ StaffRequirementsMet(p, mission, t)

\* the boolean of the (can_dispatch, reason) pair
can_dispatch_mission(p, mission, t) ==
    /\ has_active_dispatcher(p, t)
    /\ p.station_level >= mission.min_station_level
    /\ VehicleRequirementsMet(p, mission, t)
    /\ StaffRequirementsMet(p, mission, t)

\* a reason string: its fixed wording, and the quantity and the type that
\* the f-string puts into it (0 and "" where it has none)
Reason(text, quantity, type) == [text |-> text, quantity |-> quantity, type |-> type]
NoReason == Reason("", 0, "")

\* the first entry of the Counter, in its iteration order, that is not met
FirstUnmet(reqs, met) ==
    CHOOSE k \in DOMAIN reqs : ~met[k] /\ \A j \in 1..(k - 1) : met[j]

\* the reason of the (can_dispatch, reason) pair
can_dispatch_mission_reason(p, mission, t) ==
    LET vreqs == Counter(mission.required_vehicle_types)
        vmet == [k \in DOMAIN vreqs |->
                    VehicleTypeAvailability(p, vreqs[k].key, t) >= vreqs[k].n]
        sreqs == Counter(mission.required_staff_types)
        smet == [k \in DOMAIN sreqs |->
                    StaffTypeAvailability(p, sreqs[k].key, t) >= sreqs[k].n]
    IN IF ~has_active_dispatcher(p, t)
       THEN Reason("Dispatch Center requires a dispatcher on duty", 0, "")
       ELSE IF p.station_level < mission.min_station_level
       THEN Reason("Requires station level {min_station_level}",
                   mission.min_station_level, "")
       ELSE IF \E k \in DOMAIN vreqs : ~vmet[k]
       THEN LET k == FirstUnmet(vreqs, vmet)
            IN Reason("Need {quantity_needed} available {vehicle_type} vehicle(s)",
                      vreqs[k].n, vreqs[k].key)
       ELSE IF \E k \in DOMAIN sreqs : ~smet[k]
       THEN LET k == FirstUnmet(sreqs, smet)
            IN Reason("Need {quantity_needed} available {staff_type} staff",
                      sreqs[k].n, sreqs[k].key)
       ELSE NoReason

\* the requirement entries can_dispatch_mission looks at before it returns:
\* all of them up to and including the first that is not met
CheckedPrefix(reqs, met) ==
    {k \in DOMAIN reqs : \A j \in 1..(k - 1) : met[j]}

\* the side effect of can_dispatch_mission: the availability queries prune
pruned_by_can_dispatch(p, mission, t) ==
    LET p1 == pruned_by_staff_query(p, DISPATCHER_STAFF_ID, t)
        vreqs == Counter(mission.required_vehicle_types)
        vmet == [k \in DOMAIN vreqs |->
                    VehicleTypeAvailability(p, vreqs[k].key, t) >= vreqs[k].n]
        vtypes == {vreqs[k].key : k \in CheckedPrefix(vreqs, vmet)}
        sreqs == Counter(mission.required_staff_types)
        smet == [k \in DOMAIN sreqs |->
                    StaffTypeAvailability(p, sreqs[k].key, t) >= sreqs[k].n]
        stypes == {sreqs[k].key : k \in CheckedPrefix(sreqs, smet)}
        p2 == IF \E i \in DOMAIN VehicleCatalog :
                    /\ VehicleCatalog[i].vehicle_type \in vtypes
                    /\ get_vehicle_count(p, VehicleCatalog[i].id) > 0
              THEN [p1 EXCEPT !.vehicle_cooldowns = prune_cooldowns(@, t)]
              ELSE p1
        p3 == IF \E i \in DOMAIN StaffCatalog :
                    /\ StaffCatalog[i].staff_type \in stypes
                    /\ get_staff_count(p, StaffCatalog[i].id) > 0
              THEN [p2 EXCEPT !.staff_cooldowns = prune_cooldowns(@, t)]
              ELSE p2
    IN IF ~has_active_dispatcher(p, t) \/ p.station_level < mission.min_station_level
       THEN p1
       ELSE IF ~VehicleRequirementsMet(p, mission, t) THEN p2
       ELSE p3

\* describe_automation_status without the test for busy tables
describe_automation_status_busy_tables(p, t) ==
    IF ~p.automation_enabled THEN [ready |-> FALSE, slots |-> 0]
    ELSE IF ~has_automation_access(p) THEN [ready |-> FALSE, slots |-> 0]
    ELSE IF ~has_active_dispatcher(p, t) THEN [ready |-> FALSE, slots |-> 0]
    ELSE [ready |-> TRUE, slots |-> Max(1, get_available_dispatch_slots(p, t))]

\* (ready, available_slots) of describe_automation_status
describe_automation_status(p, t) ==
    IF ~p.automation_enabled THEN [ready |-> FALSE, slots |-> 0]
    ELSE IF ~has_automation_access(p) THEN [ready |-> FALSE, slots |-> 0]
    ELSE IF ~has_active_dispatcher(p, t) THEN [ready |-> FALSE, slots |-> 0]
    ELSE IF get_available_dispatch_slots(p, t) <= 0 THEN [ready |-> FALSE, slots |-> 0]
    ELSE [ready |-> TRUE, slots |-> get_available_dispatch_slots(p, t)]

pruned_by_automation_status(p, t) ==
    IF p.automation_enabled /\ has_automation_access(p)
    THEN pruned_by_staff_query(p, DISPATCHER_STAFF_ID, t)
    ELSE p

----------------------------------------------------------------------------
(* Mission and policy content *)

MissionCatalog ==
    << [id |-> "patrol_call", district |-> "downtown",
        required_vehicle_types |-> <<"patrol">>, required_staff_types |-> <<"officer">>,
        base_reward |-> 20, base_duration |-> 2, base_success_chance |-> 70,
        fuel_cost |-> 3, heat_change |-> 60,
        reputation_change_success |-> 40, reputation_change_failure |-> -70,
        min_station_level |-> 1],
       [id |-> "convoy", district |-> "downtown",
        required_vehicle_types |-> <<"patrol", "patrol">>, required_staff_types |-> <<>>,
        base_reward |-> 1, base_duration |-> 1, base_success_chance |-> 50,
        fuel_cost |-> 1, heat_change |-> -30,
        reputation_change_success |-> -60, reputation_change_failure |-> 70,
        min_station_level |-> 1] >>

\* a filter key that is absent from mission_filters has has_* = FALSE
PolicyCatalog ==
    [big_jobs |-> [has_min_reward |-> TRUE, min_reward |-> 10,
                   has_max_reward |-> FALSE, max_reward |-> 0,
                   has_districts |-> TRUE, districts |-> {"downtown"}]]
PolicyIds == DOMAIN PolicyCatalog

\* the harbor's mission: a patrol call with a long drive
HarborMissions ==
    << [MissionCatalog[1] EXCEPT !.id = "smuggling", !.district = "harbor",
                                 !.fuel_cost = 80, !.base_reward = 200] >>

get_missions_for_district(district_id, min_level) ==
    SelectSeq(MissionCatalog \o HarborMissions,
              LAMBDA m : m.district = district_id /\ m.min_station_level <= min_level)

----------------------------------------------------------------------------
(* TickEngine *)

mission_matches_filters(mission, filters) ==
    /\ ~(filters.has_min_reward /\ mission.base_reward < filters.min_reward)
    /\ ~(filters.has_max_reward /\ mission.base_reward > filters.max_reward)
    /\ ~(filters.has_districts /\ mission.district \notin filters.districts)

matches_policy(mission, active_policies) ==
    \/ active_policies = <<>>
    \/ \E k \in DOMAIN active_policies :
          /\ active_policies[k] \in PolicyIds
          /\ mission_matches_filters(mission, PolicyCatalog[active_policies[k]])

\* recurring cost of one tick: every staff member's salary plus every
\* vehicle's maintenance, flat per tick
calculate_tick_costs(p) ==
    LET salaries == SumSeq([i \in DOMAIN StaffCatalog |->
                       StaffCatalog[i].salary_per_tick * get_staff_count(p, StaffCatalog[i].id)])
        maintenance == SumSeq([i \in DOMAIN VehicleCatalog |->
                       VehicleCatalog[i].maintenance_cost
                       * get_vehicle_count(p, VehicleCatalog[i].id)])
    IN [salaries |-> salaries, maintenance |-> maintenance,
        total |-> salaries + maintenance]

\* the loop of _auto_dispatch_missions from mission i on.  ledger_up says
\* whether get_balance answers; bal is the balance it reports
RECURSIVE AutoDispatchLoop(_, _, _, _, _, _, _)
AutoDispatchLoop(acc, missions, available_slots, t, ledger_up, bal, i) ==
    IF i > Len(missions) \/ acc.dispatched >= available_slots THEN acc
    ELSE LET mission == missions[i]
             p1 == pruned_by_can_dispatch(acc.p, mission, t)
             cost == calculate_dispatch_cost(p1, mission)
             skip == [acc EXCEPT !.p = p1]
         IN IF ~can_dispatch_mission(acc.p, mission, t)
            THEN AutoDispatchLoop(skip, missions, available_slots, t, ledger_up, bal, i + 1)
            ELSE IF ~matches_policy(mission, p1.active_policies)
            THEN AutoDispatchLoop(skip, missions, available_slots, t, ledger_up, bal, i + 1)
            ELSE IF ~ledger_up \/ bal < Max(cost, MINIMUM_BALANCE)
            THEN AutoDispatchLoop(skip, missions, available_slots, t, ledger_up, bal, i + 1)
            ELSE \* dispatch_mission returns (ActiveMission, -cost, message); the
                 \* caller tests the first component, which is always truthy
                 AutoDispatchLoop(
                     [acc EXCEPT !.p = dispatch_mission(p1, mission, t),
                                 !.income = @ + (0 - cost),
                                 !.completed = @ + 1,
                                 !.dispatched = @ + 1],
                     missions, available_slots, t, ledger_up, bal, i + 1)

auto_dispatch_missions(p, t, ledger_up, bal) ==
    LET missions == get_missions_for_district(p.current_district, p.station_level)
        status == describe_automation_status(p, t)
        p1 == pruned_by_automation_status(p, t)
        none == [p |-> p1, income |-> 0, expenses |-> 0, completed |-> 0, failed |-> 0,
                 dispatched |-> 0]
    IN IF ~status.ready \/ status.slots <= 0 THEN none
       ELSE AutoDispatchLoop(none, missions, status.slots, t, ledger_up, bal, 1)

\* the body of the tick loop without the recurring costs
one_tick_uncharged(acc, t, ledger_up, bal) ==
    LET auto == auto_dispatch_missions(acc.p, t, ledger_up, bal)
        counted == [acc EXCEPT !.ticks = @ + 1]
    IN IF acc.p.automation_enabled /\ has_automation_access(acc.p)
       THEN [counted EXCEPT !.p = auto.p,
                            !.total_income = @ + auto.income,
                            !.total_expenses = @ + auto.expenses,
                            !.missions_completed = @ + auto.completed,
                            !.missions_failed = @ + auto.failed,
                            !.dispatched = @ + auto.dispatched]
       ELSE counted

\* the body of the tick loop: acc carries the profile and the running totals
one_tick(acc, t, ledger_up, bal) ==
    LET costs == calculate_tick_costs(acc.p)
        auto == auto_dispatch_missions(acc.p, t, ledger_up, bal)
        charged == [acc EXCEPT !.total_expenses = @ + costs.total,
                               !.ticks = @ + 1]
    IN IF acc.p.automation_enabled /\ has_automation_access(acc.p)
       THEN [charged EXCEPT !.p = auto.p,
                            !.total_income = @ + auto.income,
                            !.total_expenses = @ + auto.expenses,
                            !.missions_completed = @ + auto.completed,
                            !.missions_failed = @ + auto.failed,
                            !.dispatched = @ + auto.dispatched]
       ELSE charged

\* for i in range(n): the body n times in a row (the first half of the
\* iterations, then the rest)
RECURSIVE TickLoop(_, _, _, _, _)
TickLoop(acc, n, t, ledger_up, bal) ==
    IF n <= 0 THEN acc
    ELSE IF n = 1 THEN one_tick(acc, t, ledger_up, bal)
    ELSE LET done == TickLoop(acc, n \div 2, t, ledger_up, bal) IN
         \* (the test makes the evaluation finish the first iterations before
         \* it starts the remaining ones)
         IF done.ticks >= 0
         THEN TickLoop(done, n - (n \div 2), t, ledger_up, bal)
         ELSE done

\* ticks_to_process for an elapsed time in minutes
ticks_to_process_uncapped(elapsed) == Trunc(elapsed, TICK_INTERVAL_MINUTES)

ticks_to_process(elapsed) ==
    LET max_catchup_time == MAX_CATCHUP_HOURS * 60
        time_since_last == IF elapsed > max_catchup_time THEN max_catchup_time ELSE elapsed
    IN Trunc(time_since_last, TICK_INTERVAL_MINUTES)

\* apply_bank_transaction: bank is the ledger's behaviour for this call
\* ("ok", or "fails": user not resolvable or the bank raises); a withdrawal
\* above the balance and a deposit above the ceiling are refused
bank_transaction_succeeds(bank, bal, amount) ==
    /\ bank = "ok"
    /\ bal + amount >= 0
    /\ bal + amount <= MaxBalance

\* process_catchup on a profile that never ticked: initialise and save
first_catchup_unsaved(p, st, bal, t) ==
    LET p1 == [p EXCEPT !.last_tick_ts = t] IN
    [p |-> p1, stored |-> st, balance |-> bal, messages |-> <<>>,
     ticks |-> 0, dispatched |-> 0, transactions |-> <<>>, saved |-> FALSE,
     income |-> 0, expenses |-> 0, completed |-> 0, failed |-> 0]

first_catchup(p, st, bal, t) ==
    LET p1 == [p EXCEPT !.last_tick_ts = t] IN
    [p |-> p1, stored |-> p1, balance |-> bal, messages |-> <<>>,
     ticks |-> 0, dispatched |-> 0, transactions |-> <<>>, saved |-> TRUE,
     income |-> 0, expenses |-> 0, completed |-> 0, failed |-> 0]

\* process_catchup on a profile with a last tick, up to the end of the tick
\* loop: the capped flag, the number of ticks owed and the loop's totals
run_ticks(p, t, ledger_up, bal) ==
    LET elapsed == t - p.last_tick_ts
        n == ticks_to_process(elapsed)
    IN [capped |-> elapsed > MAX_CATCHUP_HOURS * 60,
        owed |-> n,
        loop |-> TickLoop([p |-> p, total_income |-> 0, total_expenses |-> 0,
                           missions_completed |-> 0, missions_failed |-> 0,
                           ticks |-> 0, dispatched |-> 0],
                          n, t, ledger_up, bal)]

\* process_catchup after the tick loop: the ledger transaction, the stats,
\* the messages, the timestamp and the save.  bank is what the ledger does
\* with the transaction: "ok", "fails" (the bank raises), or "no_user"
\* (bot.get_user does not find the user, so no transaction is attempted)
settle_ticks(p, st, bal, t, run, bank) ==
    LET loop == run.loop
        m0 == IF run.capped THEN <<"capped">> ELSE <<>>
        net_change == loop.total_income - loop.total_expenses
        attempted == net_change # 0 /\ bank # "no_user"
        success == attempted /\ bank_transaction_succeeds(bank, bal, net_change)
        p1 == IF success
              THEN [loop.p EXCEPT !.total_income_earned = @ + Max(0, loop.total_income),
                                  !.total_expenses_paid = @ + Max(0, loop.total_expenses)]
              ELSE loop.p
        m1 == IF ~success THEN m0
              ELSE m0 \o (IF net_change > 0 THEN <<"earned">> ELSE <<"paid">>)
                      \o (IF loop.missions_completed > 0 THEN <<"completed">> ELSE <<>>)
                      \o (IF loop.missions_failed > 0 THEN <<"failed">> ELSE <<>>)
        p2 == [p1 EXCEPT !.last_tick_ts = t]
    IN IF run.owed = 0
       THEN [p |-> p, stored |-> st, balance |-> bal, messages |-> m0,
             ticks |-> 0, dispatched |-> 0, transactions |-> <<>>, saved |-> FALSE,
             income |-> 0, expenses |-> 0, completed |-> 0, failed |-> 0]
       ELSE [p |-> p2, stored |-> p2,
             balance |-> IF success THEN bal + net_change ELSE bal,
             messages |-> m1, ticks |-> loop.ticks, dispatched |-> loop.dispatched,
             transactions |-> IF attempted THEN <<net_change>> ELSE <<>>,
             saved |-> TRUE,
             income |-> loop.total_income, expenses |-> loop.total_expenses,
             completed |-> loop.missions_completed, failed |-> loop.missions_failed]

\* process_catchup: the profile, the saved copy, the ledger and what the
\* call returns.  run is run_ticks(p, t, ledger_up, bal) for the ledger
\* behaviour of this call
process_catchup(p, st, bal, t, run, bank) ==
    IF p.last_tick_ts = NoneTs
    THEN first_catchup(p, st, bal, t)
    ELSE settle_ticks(p, st, bal, t, run, bank)

----------------------------------------------------------------------------
(* Operations on the profile and the engine, as steps *)

NoRet == [op |-> "none"]

\* no request in flight, no lock created
NoRequests == <<>>
NoLocks == <<>>
\* no Dispatch button on screen, no press in flight
NoViews == [shown |-> 0, presses |-> <<>>, pressed |-> 0]
NoArg == [mission |-> MissionCatalog[1]]

RollValues == {1, 50, 96}    \* the random.randint(1, 100) values drawn

AddVehicle ==
    \E id \in VehicleIds, q \in 1..MaxUnits :
        /\ total_vehicle_count(profile) + total_staff_count(profile) + q <= MaxUnits
        /\ profile' = add_vehicle(profile, id, q)
        /\ ret' = NoRet
        /\ UNCHANGED <<stored, balance, now, arg, requests, locks, views>>

AddStaff ==
    \E id \in StaffIds, q \in 1..MaxUnits :
        /\ total_vehicle_count(profile) + total_staff_count(profile) + q <= MaxUnits
        /\ profile' = add_staff(profile, id, q)
        /\ ret' = NoRet
        /\ UNCHANGED <<stored, balance, now, arg, requests, locks, views>>

RemoveVehicle ==
    \E id \in VehicleIds, q \in 1..MaxUnits :
        /\ profile' = remove_vehicle(profile, id, q)
        /\ ret' = NoRet
        /\ UNCHANGED <<stored, balance, now, arg, requests, locks, views>>

RemoveStaff ==
    \E id \in StaffIds, q \in 1..MaxUnits :
        /\ profile' = remove_staff(profile, id, q)
        /\ ret' = NoRet
        /\ UNCHANGED <<stored, balance, now, arg, requests, locks, views>>

\* allocate_* as dispatch_mission calls it: ready at now + the unit's cooldown
AllocateVehicles ==
    \E i \in DOMAIN VehicleCatalog, q \in 1..MaxUnits :
        /\ profile' = allocate_vehicles(profile, VehicleCatalog[i].id, q,
                                        now + VehicleCatalog[i].cooldown_minutes, now)
        /\ ret' = NoRet
        /\ UNCHANGED <<stored, balance, now, arg, requests, locks, views>>

AllocateStaff ==
    \E i \in DOMAIN StaffCatalog, q \in 1..MaxUnits :
        /\ profile' = allocate_staff(profile, StaffCatalog[i].id, q,
                                     now + StaffCatalog[i].cooldown_minutes, now)
        /\ ret' = NoRet
        /\ UNCHANGED <<stored, balance, now, arg, requests, locks, views>>

\* an availability query (a view rendering the fleet or the roster): it prunes
QueryVehicleAvailability ==
    \E id \in VehicleIds :
        /\ profile' = pruned_by_vehicle_query(profile, id, now)
        /\ ret' = NoRet
        /\ UNCHANGED <<stored, balance, now, arg, requests, locks, views>>

QueryStaffAvailability ==
    \E id \in StaffIds :
        /\ profile' = pruned_by_staff_query(profile, id, now)
        /\ ret' = NoRet
        /\ UNCHANGED <<stored, balance, now, arg, requests, locks, views>>

\* GameEngine.dispatch_mission, while fewer than limit missions are active
DispatchStep(limit) ==
    \E k \in DOMAIN MissionCatalog :
        /\ Len(profile.active_missions) < limit
        /\ profile' = dispatch_mission(profile, MissionCatalog[k], now)
        /\ ret' = [op |-> "dispatch_mission", mission_id |-> MissionCatalog[k].id,
                   cost_change |-> 0 - calculate_dispatch_cost(profile, MissionCatalog[k])]
        /\ UNCHANGED <<stored, balance, now, arg, requests, locks, views>>

DispatchMission == DispatchStep(MaxPending)

\* GameEngine.resolve_completed_missions with the rolls drawn from values
ResolveStep(values) ==
    \E rolls \in [{i \in DOMAIN profile.active_missions :
                        profile.active_missions[i].ends_at <= now} -> values] :
      \E r \in {resolve_completed_missions(profile, rolls, now)} :
        /\ profile' = r.p
        /\ ret' = [op |-> "resolve_completed_missions", at |-> now, rolls |-> rolls,
                   income |-> r.income, expenses |-> r.expenses,
                   completed |-> r.completed, failed |-> r.failed]
        /\ UNCHANGED <<stored, balance, now, arg, requests, locks, views>>

ResolveCompletedMissions == ResolveStep(RollValues)

\* the clock moves on by a minute, up to the last instant explored
ClockStep(last) ==
    /\ now < last
    /\ now' = now + 1
    /\ UNCHANGED <<profile, stored, balance, arg, ret, requests, locks, views>>

AdvanceTime == ClockStep(MaxTime)

----------------------------------------------------------------------------
(* Spec: the resource availability model *)

Init ==
    /\ profile = NewProfile
    /\ stored = NewProfile
    /\ balance = 0
    /\ now = 0
    /\ arg = NoArg
    /\ ret = NoRet
    /\ requests = NoRequests
    /\ locks = NoLocks
    /\ views = NoViews

Next ==
    \/ AddVehicle
    \/ AddStaff
    \/ RemoveVehicle
    \/ RemoveStaff
    \/ AllocateVehicles
    \/ AllocateStaff
    \/ QueryVehicleAvailability
    \/ QueryStaffAvailability
    \/ AdvanceTime

Spec == Init /\ [][Next]_vars

----------------------------------------------------------------------------
(* SpecDispatch: dispatch_mission on stations of several make-ups *)

\* a station with one unit of every vehicle id and staff id
EquippedProfile ==
    [NewProfile EXCEPT !.owned_vehicles = [id \in VehicleIds |-> 1],
                       !.staff_roster = [id \in StaffIds |-> 1]]

\* a station with two units of one vehicle id and of one staff id
PairedProfile ==
    [NewProfile EXCEPT !.owned_vehicles = [id \in VehicleIds |-> IF id = "cruiser" THEN 2 ELSE 0],
                       !.staff_roster = [id \in StaffIds |-> IF id = "officer" THEN 2 ELSE 0]]

\* a station that gave up one of two cruisers while both were out on a call
\* started at minute 0: the cooldown entries of both remain
OverbookedProfile ==
    [NewProfile EXCEPT !.owned_vehicles = [id \in VehicleIds |-> IF id = "cruiser" THEN 1 ELSE 0],
                       !.vehicle_cooldowns = [id \in VehicleIds |->
                                                 IF id = "cruiser" THEN <<2, 2>> ELSE <<>>]]

\* stations: nothing owned; one unit of everything; two of a kind; overbooked
DispatchStations == {NewProfile, EquippedProfile, PairedProfile, OverbookedProfile}

InitDispatch ==
    /\ profile \in DispatchStations
    /\ stored = profile
    /\ balance = 0
    /\ now = 0
    /\ arg = NoArg
    /\ ret = NoRet
    /\ requests = NoRequests
    /\ locks = NoLocks
    /\ views = NoViews

NextDispatch ==
    \/ DispatchMission
    \/ QueryVehicleAvailability
    \/ QueryStaffAvailability
    \/ AdvanceTime

SpecDispatch == InitDispatch /\ [][NextDispatch]_vars

----------------------------------------------------------------------------
(* SpecResolution: dispatch and resolution on an equipped station *)

DispatchAtStation == DispatchStep(MaxActive)

AdvanceResolveTime == ClockStep(MaxResolveTime)

InitResolution ==
    /\ profile = EquippedProfile
    /\ stored = profile
    /\ balance = 0
    /\ now = 0
    /\ arg = NoArg
    /\ ret = NoRet
    /\ requests = NoRequests
    /\ locks = NoLocks
    /\ views = NoViews

NextResolution ==
    \/ DispatchAtStation
    \/ ResolveCompletedMissions
    \/ AdvanceResolveTime

SpecResolution == InitResolution /\ [][NextResolution]_vars

----------------------------------------------------------------------------
(* SpecEconomics: the pure economics functions on drawn inputs *)

EconMissions ==
    {[id |-> "drawn", district |-> "downtown",
      required_vehicle_types |-> rv, required_staff_types |-> rs,
      base_reward |-> br, base_duration |-> bd, base_success_chance |-> sc,
      fuel_cost |-> fc, heat_change |-> 5,
      reputation_change_success |-> 2, reputation_change_failure |-> -3,
      min_station_level |-> 1] :
        rv \in {<<>>, <<"patrol", "patrol">>},
        rs \in {<<>>, <<"officer", "officer">>},
        br \in {1, 20}, bd \in {5, 10}, sc \in {-50, 0, 60, 250}, fc \in {1, 10}}

\* stations: nothing owned; one unit of everything, all ready; one unit of
\* everything with the staff out on a call until minute 3
EconStations ==
    {NewProfile,
     EquippedProfile,
     [EquippedProfile EXCEPT !.staff_cooldowns = [id \in StaffIds |-> <<3>>]]}

EconProfiles ==
    {[st EXCEPT !.station_level = lvl, !.current_district = d,
                !.owned_upgrades = ups, !.reputation = rep] :
        st \in EconStations, lvl \in 1..MaxLevel, d \in DistrictIds,
        ups \in SUBSET {"fuel_cards", "sponsorship", "training"},
        rep \in {0, 50, 100}}

InitEconomics ==
    /\ profile \in EconProfiles
    /\ stored = profile
    /\ balance = 0
    /\ now = 0
    /\ arg \in [mission : EconMissions]
    /\ ret = NoRet
    /\ requests = NoRequests
    /\ locks = NoLocks
    /\ views = NoViews

\* one evaluation of cost, reward and success chance for the drawn inputs
Evaluate ==
    /\ ret.op = "none"
    /\ ret' = [op |-> "evaluate",
               cost |-> calculate_dispatch_cost(profile, arg.mission),
               reward |-> calculate_mission_reward(profile, arg.mission),
               chance |-> calculate_success_chance(profile, arg.mission, now)]
    /\ profile' = pruned_by_success_chance(profile, arg.mission, now)
    /\ UNCHANGED <<stored, balance, now, arg, requests, locks, views>>

NextEconomics == Evaluate

SpecEconomics == InitEconomics /\ [][NextEconomics]_vars

----------------------------------------------------------------------------
(* SpecPreconditions: can_dispatch_mission on drawn stations and missions *)

\* missions by what they require: nothing, one or two of a type, and a type
\* no catalog entry has, listed before one the catalog has
PreconditionMissions ==
    {[id |-> "drawn", district |-> "downtown",
      required_vehicle_types |-> rv, required_staff_types |-> rs,
      base_reward |-> 20, base_duration |-> 2, base_success_chance |-> 60,
      fuel_cost |-> 3, heat_change |-> 5,
      reputation_change_success |-> 2, reputation_change_failure |-> -3,
      min_station_level |-> lvl] :
        rv \in {<<>>, <<"patrol">>, <<"patrol", "patrol">>, <<"armored", "patrol">>},
        rs \in {<<>>, <<"officer", "officer">>, <<"medic", "officer">>},
        lvl \in 1..MaxLevel}

\* stations by dispatchers, cruisers, SUVs and officers owned, with every
\* unit ready or one cruiser and one officer out on a call until minute 3
PreconditionStations ==
    {[NewProfile EXCEPT
        !.station_level = lvl,
        !.owned_vehicles = [id \in VehicleIds |-> IF id = "cruiser" THEN c ELSE v],
        !.staff_roster = [id \in StaffIds |-> IF id = DISPATCHER_STAFF_ID THEN d ELSE o],
        !.vehicle_cooldowns = [id \in VehicleIds |->
                                  IF id = "cruiser" /\ busy /\ c > 0 THEN <<3>> ELSE <<>>],
        !.staff_cooldowns = [id \in StaffIds |->
                                IF id = "officer" /\ busy /\ o > 0 THEN <<3>> ELSE <<>>]] :
        lvl \in 1..MaxLevel, c \in 0..2, v \in 0..1, d \in 0..1, o \in 0..2,
        busy \in BOOLEAN}

InitPreconditions ==
    /\ profile \in PreconditionStations
    /\ stored = profile
    /\ balance = 0
    /\ now = 0
    /\ arg \in [mission : PreconditionMissions]
    /\ ret = NoRet
    /\ requests = NoRequests
    /\ locks = NoLocks
    /\ views = NoViews

\* one call of can_dispatch_mission for the drawn station and mission
CanDispatchMission ==
    /\ ret.op = "none"
    /\ ret' = [op |-> "can_dispatch_mission",
               can_dispatch |-> can_dispatch_mission(profile, arg.mission, now),
               reason |-> can_dispatch_mission_reason(profile, arg.mission, now)]
    /\ profile' = pruned_by_can_dispatch(profile, arg.mission, now)
    /\ UNCHANGED <<stored, balance, now, arg, requests, locks, views>>

NextPreconditions == CanDispatchMission

SpecPreconditions == InitPreconditions /\ [][NextPreconditions]_vars

----------------------------------------------------------------------------
(* SpecEquipment: the equipment inventory and its assignment to buckets *)

\* a station with two cruisers, a dispatcher and two officers
EquipmentStation ==
    [NewProfile EXCEPT
        !.owned_vehicles = [id \in VehicleIds |-> IF id = "cruiser" THEN 2 ELSE 0],
        !.staff_roster = [id \in StaffIds |-> IF id = "officer" THEN 2 ELSE 1]]

InitEquipment ==
    /\ profile = EquipmentStation
    /\ stored = profile
    /\ balance = 0
    /\ now = 0
    /\ arg = NoArg
    /\ ret = NoRet
    /\ requests = NoRequests
    /\ locks = NoLocks
    /\ views = NoViews

\* add_equipment as a purchase calls it: one piece into the inventory
AddEquipment ==
    \E e \in EquipmentIds :
        /\ SumOfCounts(EquipmentIds, profile.equipment_inventory) < MaxEquipment
        /\ profile' = add_equipment(profile, e, 1)
        /\ ret' = NoRet
        /\ UNCHANGED <<stored, balance, now, arg, requests, locks, views>>

\* remove_equipment as a sale calls it: one unassigned piece out of the inventory
RemoveEquipment ==
    \E e \in EquipmentIds :
        /\ get_unassigned_equipment(profile, e) > 0
        /\ profile' = remove_equipment(profile, e, 1)
        /\ ret' = NoRet
        /\ UNCHANGED <<stored, balance, now, arg, requests, locks, views>>

\* ids the callers may pass: those of the catalog and one the catalog lost
AssignableVehicleIds == VehicleIds \cup {"retired"}
AssignableStaffIds == StaffIds \cup {"retired"}
AssignableEquipmentIds == EquipmentIds \cup {"discontinued"}

AssignEquipmentToVehicle ==
    \E id \in AssignableVehicleIds, e \in AssignableEquipmentIds, q \in 1..MaxAssign :
        \E r \in {assign_equipment_to_vehicle(profile, id, e, q)} :
            /\ profile' = r.p
            /\ ret' = [op |-> "assign_equipment_to_vehicle", ok |-> r.ok,
                       target_id |-> id, equipment_id |-> e, quantity |-> q]
            /\ UNCHANGED <<stored, balance, now, arg, requests, locks, views>>

AssignEquipmentToStaff ==
    \E id \in AssignableStaffIds, e \in AssignableEquipmentIds, q \in 1..MaxAssign :
        \E r \in {assign_equipment_to_staff(profile, id, e, q)} :
            /\ profile' = r.p
            /\ ret' = [op |-> "assign_equipment_to_staff", ok |-> r.ok,
                       target_id |-> id, equipment_id |-> e, quantity |-> q]
            /\ UNCHANGED <<stored, balance, now, arg, requests, locks, views>>

UnassignEquipment ==
    \E target \in {"vehicles", "staff"}, e \in EquipmentIds :
        \E id \in DOMAIN profile.equipment_assignments[target] :
            \E r \in {unassign_equipment(profile, target, id, e, 1)} :
                /\ profile' = r.p
                /\ ret' = [op |-> "unassign_equipment", ok |-> r.ok]
                /\ UNCHANGED <<stored, balance, now, arg, requests, locks, views>>

\* one cruiser sold, one officer fired
SellVehicle ==
    /\ profile' = remove_vehicle(profile, "cruiser", 1)
    /\ ret' = NoRet
    /\ UNCHANGED <<stored, balance, now, arg, requests, locks, views>>

FireStaff ==
    /\ profile' = remove_staff(profile, "officer", 1)
    /\ ret' = NoRet
    /\ UNCHANGED <<stored, balance, now, arg, requests, locks, views>>

NextEquipment ==
    \/ AddEquipment
    \/ RemoveEquipment
    \/ AssignEquipmentToVehicle
    \/ AssignEquipmentToStaff
    \/ UnassignEquipment
    \/ SellVehicle
    \/ FireStaff

SpecEquipment == InitEquipment /\ [][NextEquipment]_vars

----------------------------------------------------------------------------
(* SpecRequests: requests of players against the repository.  A request
   loads the profile (Repository.get_profile), its handler changes the
   loaded object, and it persists the object (Repository.save_profile);
   stored maps each user id to the row of that user *)

Users == {"u1", "u2"}
RequestIds == {"r1", "r2"}

\* handlers that change the profile and save it without a ledger call
Handlers == {"enable_automation", "remove_staff"}

\* what the handler does to the object its view holds
handler_effect(p, handler) ==
    IF handler = "enable_automation"
    THEN [p EXCEPT !.automation_enabled = TRUE]
    ELSE remove_staff(p, "officer", 1)

InitRequests ==
    /\ profile = NewProfile
    /\ stored = [u \in Users |-> EquippedProfile]
    /\ balance = 0
    /\ now = 0
    /\ arg = NoArg
    /\ ret = NoRet
    /\ requests \in [RequestIds -> {[user |-> u, handler |-> h, pc |-> "start",
                                      profile |-> <<>>] : u \in Users, h \in Handlers}]
    /\ locks = [u \in Users |-> "free"]
    /\ views = NoViews

\* get_profile: async with self._get_user_lock(user_id)
AcquireForLoad(r) ==
    /\ requests[r].pc = "start"
    /\ locks[requests[r].user] = "free"
    /\ locks' = [locks EXCEPT ![requests[r].user] = r]
    /\ requests' = [requests EXCEPT ![r].pc = "loading"]
    /\ UNCHANGED <<profile, stored, balance, now, arg, ret, views>>

\* get_profile: the row is read into a new object and the lock released
ReadProfile(r) ==
    /\ requests[r].pc = "loading"
    /\ requests' = [requests EXCEPT ![r].pc = "loaded",
                                    ![r].profile = <<stored[requests[r].user]>>]
    /\ locks' = [locks EXCEPT ![requests[r].user] = "free"]
    /\ UNCHANGED <<profile, stored, balance, now, arg, ret, views>>

\* the handler's callback up to its save_profile call
RunHandler(r) ==
    /\ requests[r].pc = "loaded"
    /\ requests' = [requests EXCEPT
                        ![r].pc = "changed",
                        ![r].profile = <<handler_effect(requests[r].profile[1],
                                                        requests[r].handler)>>]
    /\ UNCHANGED <<profile, stored, balance, now, arg, ret, locks, views>>

\* save_profile: async with self._get_user_lock(profile.user_id)
AcquireForSave(r) ==
    /\ requests[r].pc = "changed"
    /\ locks[requests[r].user] = "free"
    /\ locks' = [locks EXCEPT ![requests[r].user] = r]
    /\ requests' = [requests EXCEPT ![r].pc = "saving"]
    /\ UNCHANGED <<profile, stored, balance, now, arg, ret, views>>

\* save_profile: the row is overwritten with the object and the lock released
WriteProfile(r) ==
    /\ requests[r].pc = "saving"
    /\ stored' = [stored EXCEPT ![requests[r].user] = requests[r].profile[1]]
    /\ requests' = [requests EXCEPT ![r].pc = "done"]
    /\ locks' = [locks EXCEPT ![requests[r].user] = "free"]
    /\ UNCHANGED <<profile, balance, now, arg, ret, views>>

NextRequests ==
    \E r \in RequestIds :
        \/ AcquireForLoad(r)
        \/ ReadProfile(r)
        \/ RunHandler(r)
        \/ AcquireForSave(r)
        \/ WriteProfile(r)

SpecRequests == InitRequests /\ [][NextRequests]_vars

----------------------------------------------------------------------------
(* SpecFrozen: the station changes between a dispatch and its resolution *)

\* rolls on either side of the chances the station's changes move between
FrozenRollValues == {70, 80}

\* a dispatch, while fewer than MaxHeld missions were dispatched so far
DispatchAndHold ==
    /\ Len(profile.active_missions) + profile.total_missions_completed
         + profile.total_missions_failed < MaxHeld
    /\ DispatchStep(MaxHeld)

ResolveHeld == ResolveStep(FrozenRollValues)

AdvanceFrozenTime == ClockStep(MaxFrozenTime)

\* the handlers that change what the economics are computed from, while a
\* mission is under way: an upgrade bought, the district changed, the
\* station levelled up
BuyUpgrade ==
    \E u \in {"training", "sponsorship", "fuel_cards"} :
        /\ profile.active_missions # <<>>
        /\ ~has_upgrade(profile, u)
        /\ profile' = [profile EXCEPT !.owned_upgrades = @ \cup {u}]
        /\ ret' = NoRet
        /\ UNCHANGED <<stored, balance, now, arg, requests, locks, views>>

ChangeDistrict ==
    \E d \in DistrictIds :
        /\ profile.active_missions # <<>>
        /\ d # profile.current_district
        /\ profile' = [profile EXCEPT !.current_district = d]
        /\ ret' = NoRet
        /\ UNCHANGED <<stored, balance, now, arg, requests, locks, views>>

LevelUp ==
    /\ profile.active_missions # <<>>
    /\ profile.station_level < MaxLevel
    /\ profile' = [profile EXCEPT !.station_level = @ + 1]
    /\ ret' = NoRet
    /\ UNCHANGED <<stored, balance, now, arg, requests, locks, views>>

InitFrozen ==
    /\ profile = EquippedProfile
    /\ stored = profile
    /\ balance = 0
    /\ now = 0
    /\ arg = NoArg
    /\ ret = NoRet
    /\ requests = NoRequests
    /\ locks = NoLocks
    /\ views = NoViews

NextFrozen ==
    \/ DispatchAndHold
    \/ ResolveHeld
    \/ AdvanceFrozenTime
    \/ BuyUpgrade
    \/ ChangeDistrict
    \/ LevelUp

SpecFrozen == InitFrozen /\ [][NextFrozen]_vars

----------------------------------------------------------------------------
(* SpecCatchup: the catch-up scheduler over a long clock *)

\* the instants at which the player shows up
CatchupInstants == {t \in {0, 4, 8, 15, 1448, 2900} : t <= MaxCatchupTime}

\* a station with automation switched on
AutomatedProfile ==
    [EquippedProfile EXCEPT !.automation_enabled = TRUE,
                            !.owned_upgrades = {"dispatch_center"}]

\* an automated station whose dispatcher has left
UnstaffedProfile ==
    [AutomatedProfile EXCEPT !.staff_roster = [@ EXCEPT ![DISPATCHER_STAFF_ID] = 0]]

\* the allow-listed user's station: automation without the upgrade
AllowListedProfile ==
    [EquippedProfile EXCEPT !.automation_enabled = TRUE, !.special_user = TRUE]

\* profiles as the repository loads them: a new one, and automated stations
InitCatchup ==
    /\ profile \in {NewProfile, AutomatedProfile, UnstaffedProfile, AllowListedProfile}
    /\ stored = profile
    /\ balance \in {150, MaxBalance}
    /\ now = 0
    /\ arg = NoArg
    /\ ret = NoRet
    /\ requests = NoRequests
    /\ locks = NoLocks
    /\ views = NoViews

\* TickEngine.process_catchup at the instant now.  ledger_up is whether
\* get_balance answers during this call, bank what the ledger does with the
\* transaction; the tick loop runs only for a profile that has ticked before
ProcessCatchup ==
    \E ledger_up \in BOOLEAN :
        \E run \in {IF profile.last_tick_ts = NoneTs THEN [owed |-> 0]
                    ELSE run_ticks(profile, now, ledger_up, balance)} :
            \E bank \in {"ok", "fails", "no_user"} :
                \E r \in {process_catchup(profile, stored, balance, now, run, bank)} :
                    /\ profile' = r.p
                    /\ stored' = r.stored
                    /\ balance' = r.balance
                    /\ ret' = [op |-> "process_catchup", at |-> now,
                               prior |-> profile.last_tick_ts,
                               ticks |-> r.ticks, dispatched |-> r.dispatched,
                               messages |-> r.messages,
                               transactions |-> r.transactions, saved |-> r.saved,
                               income |-> r.income, expenses |-> r.expenses,
                               completed |-> r.completed, failed |-> r.failed]
                    /\ UNCHANGED <<now, arg, requests, locks, views>>

EnableAutomation ==
    /\ profile' = [profile EXCEPT !.automation_enabled = TRUE]
    /\ stored' = profile'
    /\ ret' = NoRet
    /\ UNCHANGED <<balance, now, arg, requests, locks, views>>

DisableAutomation ==
    /\ profile' = [profile EXCEPT !.automation_enabled = FALSE]
    /\ stored' = profile'
    /\ ret' = NoRet
    /\ UNCHANGED <<balance, now, arg, requests, locks, views>>

AdvanceCatchupTime ==
    /\ \E t \in CatchupInstants : t > now /\ now' = t
    /\ UNCHANGED <<profile, stored, balance, arg, ret, requests, locks, views>>

NextCatchup ==
    \/ ProcessCatchup
    \/ EnableAutomation
    \/ DisableAutomation
    \/ AdvanceCatchupTime

SpecCatchup == InitCatchup /\ [][NextCatchup]_vars

----------------------------------------------------------------------------
(* Properties *)

Unexpired(entries, t) == SelectSeq(entries, LAMBDA ts : ts > t)

\* C1: for every vehicle id and staff id, the value returned by
\* get_available_vehicle_count / get_available_staff_count is at least 0 and
\* at most the owned count of that id, in every reachable state.
C1_AvailableWithinOwned ==
    /\ \A id \in VehicleIds :
          /\ 0 <= get_available_vehicle_count(profile, id, now)
          /\ get_available_vehicle_count(profile, id, now) <= get_vehicle_count(profile, id)
    /\ \A id \in StaffIds :
          /\ 0 <= get_available_staff_count(profile, id, now)
          /\ get_available_staff_count(profile, id, now) <= get_staff_count(profile, id)

\* a state where more units of a vehicle id are busy than are owned
C1_Witness ==
    \E id \in VehicleIds :
        /\ get_vehicle_count(profile, id) >= 1
        /\ Len(Unexpired(profile.vehicle_cooldowns[id], now)) > get_vehicle_count(profile, id)
        /\ get_available_vehicle_count(profile, id, now) = 0

\* C2: for every resource id, the number of cooldown entries of that id is
\* at most the owned count of that id, in every reachable state.
C2_CooldownsWithinOwned ==
    /\ \A id \in VehicleIds :
          Len(profile.vehicle_cooldowns[id]) <= get_vehicle_count(profile, id)
    /\ \A id \in StaffIds :
          Len(profile.staff_cooldowns[id]) <= get_staff_count(profile, id)

\* the cooldown list of an id after a dispatch at time t: the list before,
\* pruned or not, followed by at most `available` new entries ending at t + cd
AddedWithinAvailable(pre, post, owned, cd, t) ==
    LET live == Unexpired(pre, t)
        available == IF owned = 0 THEN 0 ELSE Max(0, owned - Len(live))
    IN \E k \in 0..available :
          \/ post = pre \o Repeat(t + cd, k)
          \/ post = live \o Repeat(t + cd, k)

\* C3: a dispatch_mission step adds, for each vehicle id and staff id, at most
\* as many cooldown entries as units of that id were available before the
\* call, and leaves owned_vehicles and staff_roster as they were.
C3_DispatchConservation ==
    [][Len(profile'.active_missions) = Len(profile.active_missions) + 1 =>
        /\ profile'.owned_vehicles = profile.owned_vehicles
        /\ profile'.staff_roster = profile.staff_roster
        /\ \A i \in DOMAIN VehicleCatalog :
              AddedWithinAvailable(profile.vehicle_cooldowns[VehicleCatalog[i].id],
                                   profile'.vehicle_cooldowns[VehicleCatalog[i].id],
                                   profile.owned_vehicles[VehicleCatalog[i].id],
                                   VehicleCatalog[i].cooldown_minutes, now)
        /\ \A i \in DOMAIN StaffCatalog :
              AddedWithinAvailable(profile.staff_cooldowns[StaffCatalog[i].id],
                                   profile'.staff_cooldowns[StaffCatalog[i].id],
                                   profile.staff_roster[StaffCatalog[i].id],
                                   StaffCatalog[i].cooldown_minutes, now)]_vars

\* a two-vehicle mission was dispatched and took one unit of each vehicle id
C3_Witness ==
    /\ ret.op = "dispatch_mission"
    /\ ret.mission_id = "convoy"
    /\ \A id \in VehicleIds :
          /\ get_vehicle_count(profile, id) = 1
          /\ Len(Unexpired(profile.vehicle_cooldowns[id], now)) = 1

\* C4: a resolve_completed_missions step at time now leaves exactly the
\* missions with ends_at > now in active_missions, and the completed and
\* failed counters never decrease and together grow by the number of missions
\* removed (each removed mission increments exactly one of them by one).
C4_ResolutionExhaustive ==
    [][(ret'.op = "resolve_completed_missions" /\ now' = now) =>
        LET before == profile.active_missions
            after == profile'.active_missions
            removed == Len(before) - Len(after)
            dc == profile'.total_missions_completed - profile.total_missions_completed
            df == profile'.total_missions_failed - profile.total_missions_failed
        IN /\ after = SelectSeq(before, LAMBDA ms : ms.ends_at > now)
           /\ \A k \in DOMAIN after : after[k].ends_at > now
           /\ dc >= 0 /\ df >= 0 /\ dc + df = removed
           /\ ret'.completed = dc /\ ret'.failed = df]_vars

\* a sweep settled one mission as failed and left a running one in place
C4_Witness ==
    /\ ret.op = "resolve_completed_missions"
    /\ ret.at = now
    /\ ret.failed = 1
    /\ Len(profile.active_missions) = 1
    /\ profile.total_missions_failed >= 1

\* C5: reputation and heat_level stay within [0, 100] after any sequence of
\* mission resolutions, whatever the sign of the missions' deltas.
C5_MetersInRange ==
    /\ 0 <= profile.reputation /\ profile.reputation <= 100
    /\ 0 <= profile.heat_level /\ profile.heat_level <= 100

\* C6: the reward is at least the dispatch cost times (1 + PROFIT_MARGIN):
\* 100 * reward >= (100 + 10) * cost.
C6_Profitable ==
    ret.op = "evaluate" => 100 * ret.reward >= (100 + PROFIT_MARGIN_PCT) * ret.cost

\* C7: calculate_success_chance returns a value between 5 and 95.
C7_SuccessChanceBounds ==
    ret.op = "evaluate" => (5 <= ret.chance /\ ret.chance <= 95)

\* an evaluation whose raw chance was below zero and came out as 5
C7_Witness ==
    /\ ret.op = "evaluate"
    /\ success_chance_hundredths(profile, arg.mission, now) < 0
    /\ ret.chance = 5

\* C8: a catch-up after more than MAX_CATCHUP_HOURS simulates exactly
\* MAX_CATCHUP_HOURS * 60 / TICK_INTERVAL_MINUTES = 288 ticks and returns the
\* capped warning; a catch-up within the window simulates
\* floor(elapsed / TICK_INTERVAL_MINUTES) ticks.
C8_CatchupCap ==
    (ret.op = "process_catchup" /\ ret.prior # NoneTs) =>
        LET elapsed == ret.at - ret.prior IN
        IF elapsed > MAX_CATCHUP_HOURS * 60
        THEN /\ ret.ticks = 288
             /\ ret.ticks = (MAX_CATCHUP_HOURS * 60) \div TICK_INTERVAL_MINUTES
             /\ "capped" \in Range(ret.messages)
        ELSE /\ ret.ticks = elapsed \div TICK_INTERVAL_MINUTES
             /\ "capped" \notin Range(ret.messages)

\* a catch-up far beyond the window that simulated the capped number of ticks
C8_Witness ==
    /\ ret.op = "process_catchup"
    /\ ret.prior # NoneTs
    /\ ret.at - ret.prior > 2 * MAX_CATCHUP_HOURS * 60
    /\ ret.ticks = 288
    /\ total_staff_count(profile) > 0

\* C9: after every process_catchup on a profile whose last_tick_ts was set,
\* last_tick_ts equals the time of that invocation, also when zero ticks
\* were owed.
C9_LastTickAdvances ==
    (ret.op = "process_catchup" /\ ret.prior # NoneTs) =>
        profile.last_tick_ts = ret.at

\* C10: process_catchup on a profile with last_tick_ts = None sets
\* last_tick_ts to now and changes nothing else, saves the profile, runs no
\* tick and no auto-dispatch, issues no ledger transaction and returns no
\* messages; and last_tick_ts, once set, never returns to None.
C10_NeverTickedInit ==
    [][/\ (profile.last_tick_ts = NoneTs /\ ret'.op = "process_catchup" /\ now' = now) =>
            /\ profile' = [profile EXCEPT !.last_tick_ts = now]
            /\ stored' = profile'
            /\ balance' = balance
            /\ ret'.ticks = 0 /\ ret'.dispatched = 0
            /\ ret'.transactions = <<>>
            /\ ret'.messages = <<>>
       /\ profile.last_tick_ts # NoneTs => profile'.last_tick_ts # NoneTs]_vars

\* the first catch-up of an automated, staffed station at a late instant
C10_Witness ==
    /\ ret.op = "process_catchup"
    /\ ret.prior = NoneTs
    /\ ret.at > MAX_CATCHUP_HOURS * 60
    /\ profile.last_tick_ts = ret.at
    /\ stored = profile
    /\ profile.automation_enabled
    /\ total_staff_count(profile) > 0

C12_DispatcherOk == get_available_staff_count(profile, DISPATCHER_STAFF_ID, now) > 0
C12_LevelOk == profile.station_level >= arg.mission.min_station_level
C12_VehicleShort(ty) ==
    VehicleTypeAvailability(profile, ty, now) < Count(arg.mission.required_vehicle_types, ty)
C12_StaffShort(ty) ==
    StaffTypeAvailability(profile, ty, now) < Count(arg.mission.required_staff_types, ty)
C12_VehiclesOk == \A ty \in Range(arg.mission.required_vehicle_types) : ~C12_VehicleShort(ty)
C12_StaffOk == \A ty \in Range(arg.mission.required_staff_types) : ~C12_StaffShort(ty)

C12_PreconditionsFailClosed ==
    [][ret'.op = "can_dispatch_mission" =>
        LET ok == ret'.can_dispatch
            reason == ret'.reason
        IN /\ ok <=> (C12_DispatcherOk /\ C12_LevelOk /\ C12_VehiclesOk /\ C12_StaffOk)
           /\ ok => reason = NoReason
           /\ ~ok => reason.text # ""
           /\ ~C12_DispatcherOk =>
                 reason.text = "Dispatch Center requires a dispatcher on duty"
           /\ (C12_DispatcherOk /\ ~C12_LevelOk) =>
                 /\ reason.text = "Requires station level {min_station_level}"
                 /\ reason.quantity = arg.mission.min_station_level
           /\ (C12_DispatcherOk /\ C12_LevelOk /\ ~C12_VehiclesOk) =>
                 /\ reason.text = "Need {quantity_needed} available {vehicle_type} vehicle(s)"
                 /\ reason.type \in Range(arg.mission.required_vehicle_types)
                 /\ C12_VehicleShort(reason.type)
                 /\ reason.quantity = Count(arg.mission.required_vehicle_types, reason.type)
           /\ (C12_DispatcherOk /\ C12_LevelOk /\ C12_VehiclesOk /\ ~C12_StaffOk) =>
                 /\ reason.text = "Need {quantity_needed} available {staff_type} staff"
                 /\ reason.type \in Range(arg.mission.required_staff_types)
                 /\ C12_StaffShort(reason.type)
                 /\ reason.quantity = Count(arg.mission.required_staff_types, reason.type)]_vars

\* a station with a dispatcher and the level but none of the two patrol
\* vehicles the mission requires: refused, naming 2 and patrol
C12_Witness ==
    /\ ret.op = "can_dispatch_mission" /\ ~ret.can_dispatch
    /\ \A id \in VehicleIds : profile.owned_vehicles[id] = 0
    /\ ret.reason = Reason("Need {quantity_needed} available {vehicle_type} vehicle(s)",
                           2, "patrol")

\* C13: assign_equipment_to_vehicle / assign_equipment_to_staff returns True,
\* and then adds exactly quantity to the target bucket and changes nothing
\* else, only if slot_size * quantity fits the free slots of the bucket
\* (slots per unit * units owned - slots used) and quantity is at most the
\* unassigned count of that equipment; when it returns False the equipment
\* inventory and the assignments are as before.
C13_AssignmentAllOrNothing ==
    [][ret'.op \in {"assign_equipment_to_vehicle", "assign_equipment_to_staff"} =>
        LET target == IF ret'.op = "assign_equipment_to_vehicle" THEN "vehicles" ELSE "staff"
            id == ret'.target_id
            e == ret'.equipment_id
            q == ret'.quantity
            owned == IF target = "vehicles" THEN profile.owned_vehicles[id]
                     ELSE profile.staff_roster[id]
            slots_per_unit == IF target = "vehicles" THEN VehicleEquipmentSlots[id]
                              ELSE StaffEquipmentSlots[id]
            bucket == profile.equipment_assignments[target][id]
            used == SumOfCounts(EquipmentIds,
                        [x \in EquipmentIds |-> EquipmentCatalog[x].slot_size * bucket[x]])
            assigned == SumOfCounts(VehicleIds, [v \in VehicleIds |->
                                        profile.equipment_assignments.vehicles[v][e]])
                        + SumOfCounts(StaffIds, [m \in StaffIds |->
                                        profile.equipment_assignments.staff[m][e]])
        IN /\ ret'.ok =>
                /\ id \in DOMAIN profile.equipment_assignments[target]
                /\ e \in EquipmentIds
                /\ EquipmentCatalog[e].slot_size * q <= slots_per_unit * owned - used
                /\ q <= profile.equipment_inventory[e] - assigned
                /\ profile'.equipment_assignments =
                     [profile.equipment_assignments EXCEPT ![target][id][e] = @ + q]
                /\ profile'.equipment_inventory = profile.equipment_inventory
           /\ ~ret'.ok =>
                /\ profile'.equipment_inventory = profile.equipment_inventory
                /\ profile'.equipment_assignments = profile.equipment_assignments]_vars

\* two cruisers (4 slots) carrying two radios, so 2 slots free, and a ram of
\* slot_size 3 in storage: assigning the ram is refused
C13_Witness ==
    /\ ret.op = "assign_equipment_to_vehicle" /\ ~ret.ok
    /\ ret.target_id = "cruiser" /\ ret.equipment_id = "ram" /\ ret.quantity = 1
    /\ get_vehicle_slot_usage(profile, "cruiser") = [used |-> 2, total |-> 4]
    /\ profile.equipment_assignments.vehicles["cruiser"]["radio"] = 2
    /\ get_unassigned_equipment(profile, "ram") = 1

\* C14: when the ledger transaction of a catch-up fails (it was issued and
\* the balance did not move), the profile in memory and the persisted copy
\* are the same as before the catch-up started.
C14_LedgerFailureAtomic ==
    [][(/\ ret'.op = "process_catchup" /\ now' = now
        /\ ret'.transactions # <<>>
        /\ balance' = balance) =>
        /\ profile' = profile
        /\ stored' = stored]_vars

\* C15: no update is lost: once every request has persisted, the row of each
\* user reflects the change of every request made for that user (automation
\* is on if a request enabled it, and the one officer is gone if a request
\* removed staff).
C15_NoLostUpdate ==
    (\A r \in RequestIds : requests[r].pc = "done") =>
        \A r \in RequestIds :
            LET row == stored[requests[r].user] IN
            IF requests[r].handler = "enable_automation"
            THEN row.automation_enabled
            ELSE row.staff_roster["officer"] = 0

\* C16: the operating_cost, potential_reward and success_chance of an
\* ActiveMission are those computed from the profile at dispatch, and a
\* resolution uses the stored values only: a finished mission succeeds
\* exactly when its roll is at most the stored success_chance, a success
\* credits the stored potential_reward, and reputation and heat move by the
\* stored deltas, whatever the station has become since the dispatch.
RECURSIVE C16_Meters(_, _, _, _)
C16_Meters(acc, missions, rolls, i) ==
    IF i > Len(missions) THEN acc
    ELSE IF i \notin DOMAIN rolls THEN C16_Meters(acc, missions, rolls, i + 1)
    ELSE LET ms == missions[i] IN
         IF rolls[i] <= ms.success_chance
         THEN C16_Meters([reputation |-> Min(100, acc.reputation + ms.reputation_success),
                          heat_level |-> Max(0, Min(100, acc.heat_level + ms.heat_change))],
                         missions, rolls, i + 1)
         ELSE C16_Meters([reputation |-> Max(0, acc.reputation + ms.reputation_failure),
                          heat_level |-> Max(0, Min(100, acc.heat_level + Abs(ms.heat_change)))],
                         missions, rolls, i + 1)

C16_FrozenEconomics ==
    [][/\ (/\ ret'.op = "dispatch_mission"
           /\ Len(profile'.active_missions) = Len(profile.active_missions) + 1) =>
          LET am == profile'.active_missions[Len(profile'.active_missions)]
              mission == CHOOSE m \in Range(MissionCatalog) : m.id = ret'.mission_id
          IN /\ am.operating_cost = calculate_dispatch_cost(profile, mission)
             /\ am.potential_reward = calculate_mission_reward(profile, mission)
             /\ am.success_chance = calculate_success_chance(profile, mission, now)
       /\ (ret'.op = "resolve_completed_missions" /\ now' = now /\ ret'.at = now) =>
          LET held == profile.active_missions
              won == {i \in DOMAIN ret'.rolls : ret'.rolls[i] <= held[i].success_chance}
              meters == C16_Meters([reputation |-> profile.reputation,
                                    heat_level |-> profile.heat_level],
                                   held, ret'.rolls, 1)
          IN /\ ret'.completed = Cardinality(won)
             /\ ret'.failed = Cardinality(DOMAIN ret'.rolls \ won)
             /\ ret'.income = SumOver(won, [i \in won |-> held[i].potential_reward])
             /\ profile'.total_income_earned = profile.total_income_earned + ret'.income
             /\ profile'.reputation = meters.reputation
             /\ profile'.heat_level = meters.heat_level]_vars

\* a patrol call dispatched downtown (chance 74), the station moved to the
\* harbor before it finished (the chance would be 63 there), and the roll
\* of 70 resolved as a success credited with the downtown reward
C16_Witness ==
    /\ ret.op = "resolve_completed_missions" /\ ret.rolls = <<70>>
    /\ ret.completed = 1 /\ ret.income > 0
    /\ profile.current_district = "harbor"
    /\ profile.total_expenses_paid > 0
    /\ ret.income # calculate_mission_reward(profile, MissionCatalog[1])

\* C17: dispatch_mission raises total_expenses_paid by exactly the mission's
\* operating cost and returns minus that cost; resolve_completed_missions
\* leaves total_expenses_paid alone and reports expenses = 0, a success adds
\* exactly the stored reward to the returned income and to
\* total_income_earned, and a failure adds nothing.
C17_CostPaidUpfrontOnce ==
    [][/\ (/\ ret'.op = "dispatch_mission"
           /\ Len(profile'.active_missions) = Len(profile.active_missions) + 1) =>
          LET mission == CHOOSE m \in Range(MissionCatalog) : m.id = ret'.mission_id
              cost == calculate_mission_operating_costs(profile, mission).total
          IN /\ profile'.total_expenses_paid = profile.total_expenses_paid + cost
             /\ ret'.cost_change = 0 - cost
             /\ profile'.total_income_earned = profile.total_income_earned
       /\ (ret'.op = "resolve_completed_missions" /\ now' = now) =>
          LET held == profile.active_missions
              finished == {i \in DOMAIN held : held[i].ends_at <= now}
              succeeded == {i \in finished : ret'.rolls[i] <= held[i].success_chance}
              credited == SumOver(succeeded, [i \in succeeded |-> held[i].potential_reward])
          IN /\ profile'.total_expenses_paid = profile.total_expenses_paid
             /\ ret'.expenses = 0
             /\ ret'.income = credited
             /\ profile'.total_income_earned = profile.total_income_earned + credited
             /\ (succeeded = {} => /\ ret'.income = 0
                                   /\ profile'.total_income_earned =
                                        profile.total_income_earned)]_vars

\* a sweep that settled one success and one failure: the income is the one
\* stored reward, the expenses paid are those of the two dispatches
C17_Witness ==
    /\ ret.op = "resolve_completed_missions" /\ ret.at = now
    /\ ret.completed = 1 /\ ret.failed = 1
    /\ ret.income > 0 /\ ret.expenses = 0
    /\ profile.total_income_earned = ret.income
    /\ profile.total_expenses_paid > 0

\* C18: a finished mission that fails takes heat_level to
\* min(100, heat_level + |heat_change|), so never below what it was, for
\* either sign of heat_change; one that succeeds moves heat_level by the
\* signed heat_change, clamped to [0, 100].
RECURSIVE C18_HeatAfter(_, _, _, _)
C18_HeatAfter(heat, missions, rolls, i) ==
    IF i > Len(missions) THEN heat
    ELSE IF i \notin DOMAIN rolls THEN C18_HeatAfter(heat, missions, rolls, i + 1)
    ELSE IF rolls[i] > missions[i].success_chance
    THEN C18_HeatAfter(Min(100, heat + Abs(missions[i].heat_change)), missions, rolls, i + 1)
    ELSE C18_HeatAfter(Max(0, Min(100, heat + missions[i].heat_change)), missions, rolls, i + 1)

C18_FailuresNeverLowerHeat ==
    [][(ret'.op = "resolve_completed_missions" /\ now' = now) =>
        LET held == profile.active_missions
            finished == DOMAIN ret'.rolls
        IN /\ profile'.heat_level = C18_HeatAfter(profile.heat_level, held, ret'.rolls, 1)
           /\ (\A i \in finished : ret'.rolls[i] > held[i].success_chance) =>
                 profile'.heat_level >= profile.heat_level
           /\ \A i \in finished :
                 (finished = {i} /\ ret'.rolls[i] > held[i].success_chance) =>
                     profile'.heat_level =
                         Min(100, profile.heat_level + Abs(held[i].heat_change))]_vars

\* a patrol call succeeded (heat +60) and a convoy, whose heat_change is
\* -30, failed in the same sweep: the failure raised heat by 30, to 90
C18_Witness ==
    /\ ret.op = "resolve_completed_missions" /\ ret.at = now
    /\ ret.completed = 1 /\ ret.failed = 1
    /\ \E i \in DOMAIN ret.rolls : ret.rolls[i] = 50
    /\ profile.heat_level = 90

\* C19: every mission auto-dispatched during a catch-up is resolved within
\* its tick: when process_catchup returns, active_missions holds no mission
\* that the catch-up dispatched, the completed and failed counts together
\* are the number of missions dispatched, and the income reported is the sum
\* of the rewards of the successes (so never negative).
C19_AutomatedMissionsSettle ==
    [][(ret'.op = "process_catchup" /\ now' = now /\ ret'.dispatched > 0) =>
        /\ \A i \in DOMAIN profile'.active_missions :
              profile'.active_missions[i] \in Range(profile.active_missions)
        /\ ret'.completed + ret'.failed = ret'.dispatched
        /\ ret'.income >= 0]_vars

\* the four conditions of the automation gate on the profile a tick starts
\* from: the flag, the upgrade or the allow-listed user, a dispatcher
\* available, a dispatch slot free
C20_Gate(p, t) ==
    /\ p.automation_enabled
    /\ (has_upgrade(p, "dispatch_center") \/ p.special_user)
    /\ get_available_dispatcher_count(p, t) >= 1
    /\ get_available_dispatch_slots(p, t) >= 1

\* one tick from the profile before to the profile after.  exact compares
\* the cooldown lists entry by entry; otherwise only the entries that have
\* not expired at t count
C20_TickGated(before, after, t, exact) ==
    /\ after.active_missions # before.active_missions => C20_Gate(before, t)
    /\ ~C20_Gate(before, t) =>
          /\ after.active_missions = before.active_missions
          /\ IF exact
             THEN /\ after.vehicle_cooldowns = before.vehicle_cooldowns
                  /\ after.staff_cooldowns = before.staff_cooldowns
             ELSE /\ \A id \in VehicleIds :
                        Unexpired(after.vehicle_cooldowns[id], t)
                            = Unexpired(before.vehicle_cooldowns[id], t)
                  /\ \A id \in StaffIds :
                        Unexpired(after.staff_cooldowns[id], t)
                            = Unexpired(before.staff_cooldowns[id], t)

\* every one of the n ticks of a catch-up, each taken from the profile the
\* tick before it left.  A tick that leaves the profile as it found it is
\* followed by ticks that do the same, so the walk stops there
RECURSIVE C20_TicksGated(_, _, _, _, _, _)
C20_TicksGated(acc, n, t, ledger_up, bal, exact) ==
    IF n <= 0 THEN TRUE
    ELSE \A next \in {one_tick(acc, t, ledger_up, bal)} :
            /\ C20_TickGated(acc.p, next.p, t, exact)
            /\ \/ next.p = acc.p
               \/ C20_TicksGated(next, n - 1, t, ledger_up, bal, exact)

C20_CatchupGated(exact) ==
    (ret'.op = "process_catchup" /\ now' = now /\ ret'.ticks > 0) =>
        \A ledger_up \in BOOLEAN :
            C20_TicksGated([p |-> profile, total_income |-> 0, total_expenses |-> 0,
                            missions_completed |-> 0, missions_failed |-> 0,
                            ticks |-> 0, dispatched |-> 0],
                           ret'.ticks, now, ledger_up, balance, exact)

\* C20 as stated: during a catch-up a tick dispatches a mission only if, on
\* the profile the tick starts from, automation is enabled, the profile has
\* the dispatch_center upgrade or is the allow-listed user, a dispatcher is
\* available and a dispatch slot is free; a tick that starts with one of the
\* four missing leaves active_missions and every cooldown list as they were.
C20_GatedTickChangesNothing == [][C20_CatchupGated(TRUE)]_vars

\* C20 amended: the same gate, and a tick that starts with one of the four
\* conditions missing leaves active_missions as it was and neither adds nor
\* removes a cooldown entry that has not expired (the dispatcher query of
\* the status check may drop staff entries that have expired).
C20_GatedTickKeepsBusyUnits == [][C20_CatchupGated(FALSE)]_vars

\* a catch-up of several ticks on an automated station: a tick dispatched
\* with the gate open, and the later ticks found every table busy
C20_Witness ==
    /\ ret.op = "process_catchup"
    /\ ret.ticks > ret.dispatched
    /\ ret.dispatched >= 1
    /\ profile.automation_enabled
    /\ has_automation_access(profile)
    /\ get_available_dispatcher_count(profile, now) >= 1
    /\ get_available_dispatch_slots(profile, now) = 0

----------------------------------------------------------------------------
(* SpecSlots: catch-ups of one tick on stations with tables already busy *)

\* the instants at which the player shows up: one tick apart
SlotInstants == {0, TICK_INTERVAL_MINUTES, 2 * TICK_INTERVAL_MINUTES}

\* dispatch of the first mission of the catalog k times in a row at instant 0
RECURSIVE DispatchedTimes(_, _)
DispatchedTimes(p, k) ==
    IF k = 0 THEN p ELSE DispatchedTimes(dispatch_mission(p, MissionCatalog[1], 0), k - 1)

\* an automated station with units to spare that ticked at instant 0:
\* busy missions dispatched by hand at instant 0, then the roster cut down to
\* d dispatchers; extra says whether the extra_table upgrade is owned
SlotStation(d, busy, extra) ==
    LET base == [NewProfile EXCEPT
                    !.owned_vehicles = [id \in VehicleIds |-> MaxBusy + 2],
                    !.staff_roster = [id \in StaffIds |->
                                         IF id = DISPATCHER_STAFF_ID THEN MaxTables + 1
                                         ELSE MaxBusy + 2],
                    !.owned_upgrades = IF extra THEN {"dispatch_center", "extra_table"}
                                       ELSE {"dispatch_center"},
                    !.automation_enabled = TRUE,
                    !.last_tick_ts = 0]
    IN remove_staff(DispatchedTimes(base, busy), DISPATCHER_STAFF_ID, MaxTables + 1 - d)

SlotStations ==
    {SlotStation(d, busy, extra) : d \in 0..MaxTables, busy \in 0..MaxBusy, extra \in BOOLEAN}

InitSlots ==
    /\ profile \in SlotStations
    /\ stored = profile
    /\ balance = 150
    /\ now = 0
    /\ arg = NoArg
    /\ ret = NoRet
    /\ requests = NoRequests
    /\ locks = NoLocks
    /\ views = NoViews

AdvanceSlotsTime ==
    /\ \E t \in SlotInstants : t > now /\ now' = t
    /\ UNCHANGED <<profile, stored, balance, arg, ret, requests, locks, views>>

NextSlots ==
    \/ ProcessCatchup
    \/ AdvanceSlotsTime

SpecSlots == InitSlots /\ [][NextSlots]_vars

\* capacity and free slots as the claim states them
C21_Capacity(p, t) ==
    LET caps == {u \in p.owned_upgrades : UpgradeCatalog[u].effect_type = "dispatch_capacity"}
    IN Max(DISPATCH_BASE_TABLES, get_available_dispatcher_count(p, t))
       + SumOver(caps, [u \in caps |-> UpgradeCatalog[u].effect_value])

C21_Slots(p, t) ==
    IF get_available_dispatcher_count(p, t) = 0 THEN 0
    ELSE Max(0, C21_Capacity(p, t) - Len(p.active_missions))

\* one tick from acc to next: what it dispatched against the slots and the
\* capacity of the profile it started from
C21_TickWithinSlots(acc, next, t) ==
    LET dispatched == next.dispatched - acc.dispatched IN
    /\ dispatched <= C21_Slots(acc.p, t)
    /\ Len(next.p.active_missions) = Len(acc.p.active_missions) + dispatched
    /\ dispatched > 0 => Len(next.p.active_missions) <= C21_Capacity(acc.p, t)

\* every one of the n ticks of a catch-up (a tick that leaves the profile as
\* it found it is followed by ticks that do the same)
RECURSIVE C21_TicksWithinSlots(_, _, _, _, _)
C21_TicksWithinSlots(acc, n, t, ledger_up, bal) ==
    IF n <= 0 THEN TRUE
    ELSE \A next \in {one_tick(acc, t, ledger_up, bal)} :
            /\ C21_TickWithinSlots(acc, next, t)
            /\ \/ next.p = acc.p
               \/ C21_TicksWithinSlots(next, n - 1, t, ledger_up, bal)

\* C21: get_available_dispatch_slots is 0 without an available dispatcher and
\* otherwise max(0, capacity - len(active_missions)), capacity being
\* max(DISPATCH_BASE_TABLES, available dispatchers) plus the effect values of
\* the owned dispatch_capacity upgrades; and no tick of a catch-up dispatches
\* more missions than the slots free when the tick starts, so a tick that
\* dispatches leaves at most capacity missions active.
C21_DispatchSlots ==
    [][/\ get_available_dispatch_slots(profile, now) = C21_Slots(profile, now)
       /\ get_available_dispatch_slots(profile', now') = C21_Slots(profile', now')
       /\ (ret'.op = "process_catchup" /\ now' = now /\ ret'.ticks > 0) =>
             \A ledger_up \in BOOLEAN :
                 C21_TicksWithinSlots([p |-> profile, total_income |-> 0,
                                       total_expenses |-> 0, missions_completed |-> 0,
                                       missions_failed |-> 0, ticks |-> 0,
                                       dispatched |-> 0],
                                      ret'.ticks, now, ledger_up, balance)]_vars

\* a tick filled both tables of a station that owns the extra table
C21_Witness ==
    /\ ret.op = "process_catchup"
    /\ ret.ticks = 1
    /\ ret.dispatched = 2
    /\ "extra_table" \in profile.owned_upgrades
    /\ Len(profile.active_missions) = C21_Capacity(profile, now)
    /\ get_available_dispatch_slots(profile, now) = 0

----------------------------------------------------------------------------
(* SpecPlay: a player at the dispatch screens of an automated station *)

\* the missions of the content: the catalog, and one whose fuel alone costs
\* more than MINIMUM_BALANCE
PlayMissions ==
    MissionCatalog \o
    << [MissionCatalog[1] EXCEPT !.id = "raid", !.fuel_cost = 160, !.base_reward = 300] >>

\* the instants at which the player acts: at TICK_INTERVAL_MINUTES the
\* cooldowns have run out, the missions have ended and a tick is owed
PlayInstants == {0, TICK_INTERVAL_MINUTES}

\* ledger balances at the start: below MINIMUM_BALANCE, and above it but
\* below the cost of the raid
PlayBalances == {99, 150}

\* the station as the dashboard command loads it after its catch-up
PlayStation == [AutomatedProfile EXCEPT !.last_tick_ts = 0]

InitPlay ==
    /\ profile = PlayStation
    /\ stored = profile
    /\ balance \in PlayBalances
    /\ now = 0
    /\ arg = NoArg
    /\ ret = NoRet
    /\ requests = NoRequests
    /\ locks = NoLocks
    /\ views = NoViews

\* MissionSelect.callback: MissionDetailView is built on the profile, with a
\* Dispatch button if can_dispatch_mission holds, and its embed is rendered
\* (the availability queries prune expired cooldown entries)
SelectMission ==
    \E k \in DOMAIN PlayMissions :
        LET mission == PlayMissions[k]
            can_dispatch == can_dispatch_mission(profile, mission, now)
            p1 == pruned_by_can_dispatch(profile, mission, now)
            p2 == pruned_by_success_chance(p1, mission, now)
        IN /\ profile' = pruned_by_can_dispatch(p2, mission, now)
           /\ views' = [views EXCEPT !.shown = IF can_dispatch THEN k ELSE 0]
           /\ ret' = [op |-> "select_mission", mission_id |-> mission.id,
                      can_dispatch |-> can_dispatch]
           /\ UNCHANGED <<stored, balance, now, arg, requests, locks>>

\* the player presses the Dispatch button on screen: the interaction is
\* received and its callback is started
PressDispatch ==
    /\ views.shown # 0
    /\ views.pressed < MaxPresses
    /\ views' = [views EXCEPT !.presses = Append(@, views.shown), !.pressed = @ + 1]
    /\ ret' = NoRet
    /\ UNCHANGED <<profile, stored, balance, now, arg, requests, locks>>

\* the balance checks of DispatchButton.callback: the press is turned down
\* below the minimum balance only
dispatch_blocked_below_minimum(ledger_up, bal, cost) ==
    ~ledger_up \/ bal < MINIMUM_BALANCE

\* the balance checks of DispatchButton.callback: the press is turned down
\* when get_balance returns None, or the balance is below the cost or below
\* the minimum balance
dispatch_blocked(ledger_up, bal, cost) ==
    ~ledger_up \/ bal < cost \/ bal < MINIMUM_BALANCE

\* DispatchButton.callback for the oldest press.  ledger_up is whether
\* get_balance answers, bank what the ledger does with the transaction
DispatchButtonCallback ==
    /\ views.presses # <<>>
    /\ \E ledger_up \in BOOLEAN, bank \in {"ok", "fails"} :
        LET k == Head(views.presses)
            mission == PlayMissions[k]
            cost == calculate_dispatch_cost(profile, mission)
            blocked == dispatch_blocked(ledger_up, balance, cost)
            dispatched == dispatch_mission(profile, mission, now)
            bank_success == bank_transaction_succeeds(bank, balance, 0 - cost)
            seen == [op |-> "dispatch_button", mission_id |-> mission.id,
                     ledger_up |-> ledger_up, balance |-> balance, cost |-> cost,
                     can_dispatch |-> can_dispatch_mission(profile, mission, now)]
        IN IF blocked
           THEN /\ ret' = seen @@ [outcome |-> IF ledger_up THEN "insufficient_funds"
                                               ELSE "balance_unavailable"]
                /\ views' = [views EXCEPT !.presses = Tail(@)]
                /\ UNCHANGED <<profile, stored, balance>>
           ELSE IF ~bank_success
           THEN /\ profile' = dispatched
                /\ ret' = seen @@ [outcome |-> "bank_failed"]
                /\ views' = [views EXCEPT !.presses = Tail(@)]
                /\ UNCHANGED <<stored, balance>>
           ELSE /\ profile' = dispatched
                /\ stored' = dispatched
                /\ balance' = balance - cost
                /\ ret' = seen @@ [outcome |-> "dispatched"]
                /\ views' = [views EXCEPT !.presses = Tail(@), !.shown = 0]
    /\ UNCHANGED <<now, arg, requests, locks>>

\* ActiveMissionsButton.callback: ActiveMissionsView.build_embed prunes the
\* missions that have ended and saves if any was dropped
OpenActiveMissions ==
    /\ profile' = prune_expired_missions(profile, now)
    /\ stored' = IF Len(profile'.active_missions) # Len(profile.active_missions)
                 THEN profile' ELSE stored
    /\ views' = [views EXCEPT !.shown = 0]
    /\ ret' = [op |-> "active_missions",
               dropped |-> Len(profile.active_missions) - Len(profile'.active_missions)]
    /\ UNCHANGED <<balance, now, arg, requests, locks>>

\* EquipmentPurchaseSelect.callback on the equipment screen
PurchaseEquipment ==
    /\ SumOfCounts(EquipmentIds, profile.equipment_inventory) < MaxPurchases
    /\ \E id \in EquipmentIds, ledger_up \in BOOLEAN, bank \in {"ok", "fails"} :
        LET cost == EquipmentCatalog[id].purchase_cost
            blocked == ~ledger_up \/ balance < cost
            success == bank_transaction_succeeds(bank, balance, 0 - cost)
            seen == [op |-> "purchase_equipment", equipment_id |-> id,
                     ledger_up |-> ledger_up, balance |-> balance, cost |-> cost]
        IN IF blocked \/ ~success
           THEN /\ ret' = seen @@ [outcome |-> IF ~ledger_up THEN "balance_unavailable"
                                               ELSE IF blocked THEN "insufficient_funds"
                                               ELSE "bank_failed"]
                /\ UNCHANGED <<profile, stored, balance>>
           ELSE /\ profile' = add_equipment(profile, id, 1)
                /\ stored' = profile'
                /\ balance' = balance - cost
                /\ ret' = seen @@ [outcome |-> "purchased"]
    /\ views' = [views EXCEPT !.shown = 0]
    /\ UNCHANGED <<now, arg, requests, locks>>

\* DashboardRefreshButton.callback: the profile is loaded again from the
\* repository and process_catchup runs on it (taken when no press is in
\* flight: a callback in flight holds the profile object of its own view)
RefreshDashboard ==
  /\ views.presses = <<>>
  /\ \E ledger_up \in BOOLEAN :
        \E run \in {IF stored.last_tick_ts = NoneTs THEN [owed |-> 0]
                    ELSE run_ticks(stored, now, ledger_up, balance)} :
            \E bank \in {"ok", "fails"} :
                \E r \in {process_catchup(stored, stored, balance, now, run, bank)} :
                    /\ profile' = r.p
                    /\ stored' = r.stored
                    /\ balance' = r.balance
                    /\ ret' = [op |-> "refresh", at |-> now, ledger_up |-> ledger_up,
                               balance |-> balance,
                               ticks |-> r.ticks, dispatched |-> r.dispatched,
                               transactions |-> r.transactions, saved |-> r.saved,
                               income |-> r.income, expenses |-> r.expenses,
                               completed |-> r.completed, failed |-> r.failed]
                    /\ views' = [views EXCEPT !.shown = 0]
                    /\ UNCHANGED <<now, arg, requests, locks>>

AdvancePlayTime ==
    /\ \E t \in PlayInstants : t > now /\ now' = t
    /\ UNCHANGED <<profile, stored, balance, arg, ret, requests, locks, views>>

NextPlay ==
    \/ SelectMission
    \/ PressDispatch
    \/ DispatchButtonCallback
    \/ OpenActiveMissions
    \/ RefreshDashboard
    \/ AdvancePlayTime

SpecPlay == InitPlay /\ [][NextPlay]_vars

----------------------------------------------------------------------------
(* SpecSpending: what spends credits, with the ledger answering or not *)

\* the player has pressed the Dispatch button of mission k
PressInFlight(k) == [shown |-> k, presses |-> <<k>>, pressed |-> 1]

InitSpending ==
    /\ profile = PlayStation
    /\ stored = profile
    /\ balance \in PlayBalances
    /\ now = 0
    /\ arg = NoArg
    /\ ret = NoRet
    /\ requests = NoRequests
    /\ locks = NoLocks
    /\ views \in {NoViews} \cup {PressInFlight(k) : k \in DOMAIN PlayMissions}

NextSpending ==
    \/ DispatchButtonCallback
    \/ PurchaseEquipment
    \/ RefreshDashboard
    \/ AdvancePlayTime

SpecSpending == InitSpending /\ [][NextSpending]_vars

\* the mission of the content with the given id
C22_Mission(id) == CHOOSE m \in Range(PlayMissions) : m.id = id

\* the missions a step appended to active_missions
C22_Appended ==
    {profile'.active_missions[i] :
        i \in (Len(stored.active_missions) + 1)..Len(profile'.active_missions)}

\* C22: a mission is dispatched, by the Dispatch button or by the automation
\* of a catch-up, only if the ledger balance read just before was available
\* and at least max(dispatch cost, MINIMUM_BALANCE); a purchase goes through
\* only if the balance was available and covers the price; with the balance
\* unavailable the button and the purchase leave the profile, its saved copy
\* and the ledger as they were, and a catch-up appends no mission and puts no
\* unit on cooldown.
C22_BalanceGate ==
    [][/\ (ret'.op = "dispatch_button" /\ now' = now /\ views' # views) =>
             /\ profile' # profile =>
                   /\ ret'.ledger_up
                   /\ balance >= Max(calculate_dispatch_cost(
                                         profile, C22_Mission(ret'.mission_id)),
                                     MINIMUM_BALANCE)
             /\ ~ret'.ledger_up =>
                   profile' = profile /\ stored' = stored /\ balance' = balance
       /\ (ret'.op = "purchase_equipment" /\ now' = now) =>
             /\ profile' # profile =>
                   /\ ret'.ledger_up
                   /\ balance >= EquipmentCatalog[ret'.equipment_id].purchase_cost
             /\ ~ret'.ledger_up =>
                   profile' = profile /\ stored' = stored /\ balance' = balance
       /\ (ret'.op = "refresh" /\ now' = now) =>
             /\ ret'.dispatched > 0 =>
                   /\ ret'.ledger_up
                   /\ \A am \in C22_Appended :
                         balance >= Max(am.operating_cost, MINIMUM_BALANCE)
             /\ ~ret'.ledger_up =>
                   /\ profile'.active_missions = stored.active_missions
                   /\ \A id \in VehicleIds :
                         Unexpired(profile'.vehicle_cooldowns[id], now)
                             = Unexpired(stored.vehicle_cooldowns[id], now)
                   /\ \A id \in StaffIds :
                         Unexpired(profile'.staff_cooldowns[id], now)
                             = Unexpired(stored.staff_cooldowns[id], now)]_vars

\* the Dispatch button of the raid was pressed with the ledger answering 150,
\* above the minimum balance and below the cost: the press was turned down
C22_Witness ==
    /\ ret.op = "dispatch_button"
    /\ ret.mission_id = "raid"
    /\ ret.ledger_up
    /\ ret.balance >= MINIMUM_BALANCE
    /\ ret.balance < ret.cost
    /\ ret.outcome = "insufficient_funds"
    /\ profile.active_missions = <<>>

\* C23: one process_catchup issues at most one ledger transaction, for the
\* total income minus the total expenses of all its ticks, and issues it
\* whenever that amount is not zero.
C23_SingleLedgerTransaction ==
    [][(ret'.op = "process_catchup" /\ now' = now) =>
        /\ Len(ret'.transactions) <= 1
        /\ \A i \in DOMAIN ret'.transactions :
              ret'.transactions[i] = ret'.income - ret'.expenses
        /\ ret'.income - ret'.expenses # 0 => ret'.transactions # <<>>]_vars

\* C24: after remove_vehicle / remove_staff of any quantity (also one smaller
\* than the owned count) the id has no more cooldown entries than units left,
\* the equipment assigned to the id fits the slots of the units left (what
\* the removed units carried is no longer assigned), and equipment_inventory
\* is as it was.
C24_RemovalFreesBoundResources ==
    [][/\ \A id \in VehicleIds :
             profile'.owned_vehicles[id] < profile.owned_vehicles[id] =>
                /\ Len(profile'.vehicle_cooldowns[id]) <= profile'.owned_vehicles[id]
                /\ get_vehicle_slot_usage(profile', id).used
                       <= get_vehicle_slot_usage(profile', id).total
                /\ profile'.equipment_inventory = profile.equipment_inventory
       /\ \A id \in StaffIds :
             profile'.staff_roster[id] < profile.staff_roster[id] =>
                /\ Len(profile'.staff_cooldowns[id]) <= profile'.staff_roster[id]
                /\ get_staff_slot_usage(profile', id).used
                       <= get_staff_slot_usage(profile', id).total
                /\ profile'.equipment_inventory = profile.equipment_inventory]_vars

----------------------------------------------------------------------------
(* The units the costing walk charges, per catalog id *)

\* the inner loop of the maintenance walk of calculate_mission_operating_costs
\* from catalog position i on: the units it charges of each vehicle id
RECURSIVE CostedVehicleWalk(_, _, _, _)
CostedVehicleWalk(p, vehicle_type, quantity_needed, i) ==
    IF i > Len(VehicleCatalog) THEN [id \in VehicleIds |-> 0]
    ELSE LET vehicle == VehicleCatalog[i]
             owned == get_vehicle_count(p, vehicle.id)
             used == Min(quantity_needed, owned)
         IN IF vehicle.vehicle_type # vehicle_type \/ owned <= 0
            THEN CostedVehicleWalk(p, vehicle_type, quantity_needed, i + 1)
            ELSE LET rest == IF quantity_needed - used <= 0
                             THEN [id \in VehicleIds |-> 0]
                             ELSE CostedVehicleWalk(p, vehicle_type,
                                                    quantity_needed - used, i + 1)
                 IN [rest EXCEPT ![vehicle.id] = @ + used]

RECURSIVE CostedStaffWalk(_, _, _, _)
CostedStaffWalk(p, staff_type, quantity_needed, i) ==
    IF i > Len(StaffCatalog) THEN [id \in StaffIds |-> 0]
    ELSE LET staff == StaffCatalog[i]
             owned == get_staff_count(p, staff.id)
             used == Min(quantity_needed, owned)
         IN IF staff.staff_type # staff_type \/ owned <= 0
            THEN CostedStaffWalk(p, staff_type, quantity_needed, i + 1)
            ELSE LET rest == IF quantity_needed - used <= 0
                             THEN [id \in StaffIds |-> 0]
                             ELSE CostedStaffWalk(p, staff_type,
                                                  quantity_needed - used, i + 1)
                 IN [rest EXCEPT ![staff.id] = @ + used]

\* the units charged over all the required types of the mission
costed_vehicle_units(p, mission) ==
    LET vreq == Counter(mission.required_vehicle_types) IN
    [id \in VehicleIds |->
        SumSeq([k \in DOMAIN vreq |-> CostedVehicleWalk(p, vreq[k].key, vreq[k].n, 1)[id]])]

costed_staff_units(p, mission) ==
    LET sreq == Counter(mission.required_staff_types) IN
    [id \in StaffIds |->
        SumSeq([k \in DOMAIN sreq |-> CostedStaffWalk(p, sreq[k].key, sreq[k].n, 1)[id]])]

\* the mission of the catalog with the given id
C25_Mission(id) == CHOOSE m \in Range(MissionCatalog) : m.id = id

\* C25: for a dispatch that can_dispatch_mission allows, the units of each
\* catalog id that calculate_mission_operating_costs charges are the units of
\* that id that dispatch_mission puts on cooldown.
C25_CostingEqualsAllocation ==
    [][(/\ ret'.op = "dispatch_mission" /\ now' = now
        /\ Len(profile'.active_missions) = Len(profile.active_missions) + 1
        /\ can_dispatch_mission(profile, C25_Mission(ret'.mission_id), now)) =>
        /\ \A id \in VehicleIds :
              costed_vehicle_units(profile, C25_Mission(ret'.mission_id))[id]
                  = Len(Unexpired(profile'.vehicle_cooldowns[id], now))
                    - Len(Unexpired(profile.vehicle_cooldowns[id], now))
        /\ \A id \in StaffIds :
              costed_staff_units(profile, C25_Mission(ret'.mission_id))[id]
                  = Len(Unexpired(profile'.staff_cooldowns[id], now))
                    - Len(Unexpired(profile.staff_cooldowns[id], now))]_vars

----------------------------------------------------------------------------
(* SpecPersistence: the player_profiles row written and read by the repository *)

\* datetime.isoformat and datetime.fromisoformat: the text of a timestamp
isoformat(t) == <<"iso", t>>
fromisoformat(text) == text[2]

\* the last_tick_ts column: NULL for None, the ISO text otherwise
last_tick_column(t) ==
    IF t = NoneTs THEN [null |-> TRUE, text |-> isoformat(0)]
    ELSE [null |-> FALSE, text |-> isoformat(t)]

\* the comprehension {k: v.isoformat() for k, v in cooldowns.items()} of
\* save_profile: v is the list of ready times of a key, a list has no
\* isoformat, and so the first key of the mapping raises AttributeError.  A
\* key is in the mapping exactly while its list is not empty (_prune_cooldowns
\* pops a key whose list becomes empty).
cooldown_column_raises(cooldowns) ==
    \E id \in DOMAIN cooldowns : cooldowns[id] # <<>>

save_raises(p) ==
    cooldown_column_raises(p.vehicle_cooldowns) \/ cooldown_column_raises(p.staff_cooldowns)

\* the columns of the UPDATE of save_profile (station name and dashboard
\* message ids are left out of the model); it is only evaluated when the
\* cooldown columns do not raise, and both are then the empty JSON object
ProfileRow(p) ==
    [special_user |-> p.special_user,
     station_level |-> p.station_level,
     current_district |-> p.current_district,
     owned_vehicles |-> p.owned_vehicles,
     staff_roster |-> p.staff_roster,
     owned_upgrades |-> p.owned_upgrades,
     active_policies |-> p.active_policies,
     heat_level |-> p.heat_level,
     reputation |-> p.reputation,
     last_tick_ts |-> last_tick_column(p.last_tick_ts),
     automation_enabled |-> IF p.automation_enabled THEN 1 ELSE 0,
     vehicle_cooldowns |-> {},
     staff_cooldowns |-> {},
     total_missions_completed |-> p.total_missions_completed,
     total_missions_failed |-> p.total_missions_failed,
     total_income_earned |-> p.total_income_earned,
     total_expenses_paid |-> p.total_expenses_paid]

\* Repository.save_profile on the stored row: the row afterwards
save_profile(row, p) == IF save_raises(p) THEN row ELSE ProfileRow(p)

\* Repository._row_to_profile: the columns become fields; the fields that have
\* no column (equipment_inventory, equipment_assignments, active_missions) get
\* the defaults of the dataclass
\* (a cooldown column that is the empty object gives an empty mapping)
_row_to_profile(row) ==
    [NewProfile EXCEPT
        !.special_user = row.special_user,
        !.station_level = row.station_level,
        !.current_district = row.current_district,
        !.owned_vehicles = row.owned_vehicles,
        !.staff_roster = row.staff_roster,
        !.owned_upgrades = row.owned_upgrades,
        !.active_policies = row.active_policies,
        !.heat_level = row.heat_level,
        !.reputation = row.reputation,
        !.last_tick_ts = IF row.last_tick_ts.null THEN NoneTs
                         ELSE fromisoformat(row.last_tick_ts.text),
        !.automation_enabled = (row.automation_enabled # 0),
        !.vehicle_cooldowns = [id \in VehicleIds |->
                                  IF id \in row.vehicle_cooldowns THEN <<0>> ELSE <<>>],
        !.staff_cooldowns = [id \in StaffIds |->
                                  IF id \in row.staff_cooldowns THEN <<0>> ELSE <<>>],
        !.total_missions_completed = row.total_missions_completed,
        !.total_missions_failed = row.total_missions_failed,
        !.total_income_earned = row.total_income_earned,
        !.total_expenses_paid = row.total_expenses_paid]

\* a station with one unit of everything and a radio in its inventory
StockedProfile == [EquippedProfile EXCEPT !.equipment_inventory["radio"] = 1]

\* stations: one unit of everything; with a radio; two of a kind; automated
PersistStations == {EquippedProfile, StockedProfile, PairedProfile, PlayStation}

InitPersistence ==
    /\ profile \in PersistStations
    /\ stored = ProfileRow(profile)
    /\ balance = 0
    /\ now = 0
    /\ arg = NoArg
    /\ ret = NoRet
    /\ requests = NoRequests
    /\ locks = NoLocks
    /\ views = NoViews

\* Repository.save_profile of the profile in memory
SaveProfile ==
    /\ stored' = save_profile(stored, profile)
    /\ ret' = [op |-> "save_profile",
               outcome |-> IF save_raises(profile) THEN "AttributeError" ELSE "saved"]
    /\ UNCHANGED <<profile, balance, now, arg, requests, locks, views>>

\* Repository.get_profile: the profile in memory is replaced by the row's
GetProfile ==
    /\ profile' = _row_to_profile(stored)
    /\ ret' = [op |-> "get_profile"]
    /\ UNCHANGED <<stored, balance, now, arg, requests, locks, views>>

NextPersistence ==
    \/ DispatchMission
    \/ SaveProfile
    \/ GetProfile
    \/ AdvanceTime

SpecPersistence == InitPersistence /\ [][NextPersistence]_vars

\* C26: save_profile followed by get_profile succeeds and returns a profile
\* equal to the saved one in its cooldowns, active missions, equipment,
\* meters, statistics and last_tick_ts.
C26_RoundTrip ==
    [][(ret'.op = "save_profile" /\ now' = now) =>
        /\ ret'.outcome = "saved"
        /\ \A loaded \in {_row_to_profile(stored')} :
              /\ loaded.vehicle_cooldowns = profile.vehicle_cooldowns
              /\ loaded.staff_cooldowns = profile.staff_cooldowns
              /\ loaded.active_missions = profile.active_missions
              /\ loaded.equipment_inventory = profile.equipment_inventory
              /\ loaded.equipment_assignments = profile.equipment_assignments
              /\ loaded.heat_level = profile.heat_level
              /\ loaded.reputation = profile.reputation
              /\ loaded.total_missions_completed = profile.total_missions_completed
              /\ loaded.total_missions_failed = profile.total_missions_failed
              /\ loaded.total_income_earned = profile.total_income_earned
              /\ loaded.total_expenses_paid = profile.total_expenses_paid
              /\ loaded.last_tick_ts = profile.last_tick_ts]_vars

\* C27: the Dispatch button appends an ActiveMission and charges its cost
\* only if can_dispatch_mission holds at the moment dispatch_mission runs.
C27_DispatchMeetsPreconditions ==
    [][(/\ ret'.op = "dispatch_button" /\ now' = now
        /\ ret'.outcome = "dispatched"
        /\ Len(profile'.active_missions) = Len(profile.active_missions) + 1) =>
        can_dispatch_mission(profile, C22_Mission(ret'.mission_id), now)]_vars

\* the missions a saved profile accounts for: in flight, completed or failed
C28_Accounted(p) ==
    Len(p.active_missions) + p.total_missions_completed + p.total_missions_failed

\* C28: a mission leaves active_missions only by being settled: no step
\* lowers the number of missions the saved profile accounts for (in flight
\* plus completed plus failed), so that number stays the number dispatched.
C28_MissionConservation ==
    [][C28_Accounted(stored') >= C28_Accounted(stored)]_vars

\* C29(a): in every bucket the used slots are at most the slots of the owned units
C29_WithinCapacity(p) ==
    /\ \A id \in VehicleIds :
          get_vehicle_slot_usage(p, id).used <= get_vehicle_slot_usage(p, id).total
    /\ \A id \in StaffIds :
          get_staff_slot_usage(p, id).used <= get_staff_slot_usage(p, id).total

\* C29(b): of every equipment id no more is assigned than the inventory holds
C29_WithinInventory(p) ==
    \A id \in EquipmentIds :
        get_total_assigned_equipment(p, id) <= p.equipment_inventory[id]

\* C29: after any sequence of buying and selling equipment, assigning,
\* unassigning, adding and removing units, every bucket is within its slot
\* capacity and every equipment id is assigned at most as often as it is held.
C29_BucketInvariants ==
    C29_WithinCapacity(profile) /\ C29_WithinInventory(profile)

\* part (b) of C29 on its own
C29_InventoryInvariant == C29_WithinInventory(profile)

----------------------------------------------------------------------------
(* SpecAffordability: catch-ups of automated stations downtown and at the harbor *)

AffordBalances == {150, 250}

\* automated stations with units to spare and one or two dispatchers, with
\* and without the extra table, in either district
AffordStations ==
    {[SlotStation(d, 0, extra) EXCEPT !.current_district = c] :
        d \in 1..MaxTables, extra \in BOOLEAN, c \in {"downtown", "harbor"}}

InitAffordability ==
    /\ profile \in AffordStations
    /\ stored = profile
    /\ balance \in AffordBalances
    /\ now = 0
    /\ arg = NoArg
    /\ ret = NoRet
    /\ requests = NoRequests
    /\ locks = NoLocks
    /\ views = NoViews

NextAffordability ==
    \/ ProcessCatchup
    \/ AdvanceSlotsTime

SpecAffordability == InitAffordability /\ [][NextAffordability]_vars

\* the operating costs of the missions a step appended to active_missions
C30_DispatchedCosts ==
    SumSeq([i \in 1..(Len(profile'.active_missions) - Len(profile.active_missions)) |->
               profile'.active_missions[Len(profile.active_missions) + i].operating_cost])

\* C30: the operating costs of all the missions one process_catchup
\* auto-dispatches, over all its ticks, sum to no more than the ledger
\* balance at the start of the catch-up.
C30_CatchupAffordable ==
    [][(ret'.op = "process_catchup" /\ now' = now) =>
        C30_DispatchedCosts <= balance]_vars

====
